---- MODULE Spec2Model ----
(***************************************************************************)
(* Tool registry, tool validation and the converter toolToJsonSchema of    *)
(* n8n-mcp-agent-toolkit (src/src/toolConfiguration/toolSchema.ts), with   *)
(* the built-in tools (src/src/toolConfiguration/builtInTools.ts), the     *)
(* prompt formatters (src/src/promptTemplates/formatters.ts), and the      *)
(* Validator and the flat-record adapters (src/unnamed/part_002).          *)
(*                                                                         *)
(* A JavaScript object is a function from field names to values; an        *)
(* absent optional field is a name outside the function's DOMAIN.          *)
(* A JavaScript Map is the sequence of its entries [key, value] in         *)
(* insertion order, a JavaScript Set the sequence of its members in        *)
(* insertion order.                                                        *)
(***************************************************************************)
EXTENDS Integers, Sequences, FiniteSets, TLC

VARIABLES
  tools,     \* globalToolRegistry.tools : Map<string, Tool>
  tags,      \* globalToolRegistry.tags  : Map<string, Set<string>>
  call,      \* the last call made: operation, argument, outcome
  instances, \* the registries built with "new ToolRegistry()", each with its
             \* own tools and tags
  validator  \* the Validator built with validate(value): value, errors, isValid

vars == <<tools, tags, call, instances, validator>>

(***************************************************************************)
(* Bounds and input sets                                                   *)
(***************************************************************************)
MaxBatch == 2

Names == {"a", "A", "b"}
Tags == {"x", "y"}

Range(s) == {s[i] : i \in 1..Len(s)}

\* the lower-case form of a name of the input sets
Lower(n) == IF n = "A" THEN "a" ELSE n

(***************************************************************************)
(* Map and Set of the JavaScript runtime                                   *)
(***************************************************************************)
MapHas(m, k) == \E i \in 1..Len(m) : m[i].key = k

MapGet(m, k) == m[CHOOSE i \in 1..Len(m) : m[i].key = k].value

MapSet(m, k, v) ==
  IF MapHas(m, k)
    THEN [i \in 1..Len(m) |-> IF m[i].key = k THEN [key |-> k, value |-> v] ELSE m[i]]
    ELSE Append(m, [key |-> k, value |-> v])

MapDelete(m, k) == SelectSeq(m, LAMBDA e : e.key # k)

MapKeys(m) == [i \in 1..Len(m) |-> m[i].key]

MapValues(m) == [i \in 1..Len(m) |-> m[i].value]

\* SetAdd without the membership test of a Set
SetAddAgain(s, x) == Append(s, x)

SetAdd(s, x) == IF x \in Range(s) THEN s ELSE Append(s, x)

SetDelete(s, x) == SelectSeq(s, LAMBDA e : e # x)

(***************************************************************************)
(* Validation (zod schemas)                                                *)
(***************************************************************************)
ParamTypes == {"string", "number", "boolean", "array", "object"}

BaseKeys == {"name", "description", "type", "required"}

StringFormats == {"date", "date-time", "email", "uri", "regex", "text"}

NumberFormats == {"float", "double", "int32", "int64"}

\* z.boolean() accepts exactly the two boolean values
IsBoolean(v) == ToString(v) \in {"TRUE", "FALSE"}

\* an issue of a ZodError: the path of the value and the code
Issue(path, code) == [path |-> path, code |-> code]

\* the issues I, reported below the path
Prefix(path, I) == {Issue(path \o i.path, i.code) : i \in I}

\* issues that leave a parse dirty, not aborted: the value has the right type
\* and fails a check (min(1)); an object with such issues only is dirty too
Dirty(I) == I # {} /\ \A i \in I : i.code = "too_small"

\* what a z.union adds to the error when its option for the value has the
\* issues I: the issues of a dirty option, one issue invalid_union at the path
\* of the value when every option is aborted. The issues of the options are
\* kept in the unionErrors of that issue, not in the list of the error.
UnionIssues(I) ==
  IF I = {} \/ Dirty(I) THEN I ELSE {Issue(<<>>, "invalid_union")}

\* z.array(...): the values the inputs give to a field that takes a list are
\* lists and booleans
IsList(v) == ~IsBoolean(v)

\* z.string().min(1)
NonEmptyStringIssues(o, k) ==
  IF k \notin DOMAIN o THEN {Issue(<<k>>, "invalid_type")}
  ELSE IF o[k] = "" THEN {Issue(<<k>>, "too_small")}
  ELSE {}

\* z.number().int().optional(): every integer is accepted
IntIssues(o, ks) == {Issue(<<k>>, "invalid_type") : k \in {j \in ks \cap DOMAIN o : o[j] \notin Int}}

\* the fields name, description and type, which every schema of a parameter
\* declares alike: the issues of a value, with paths below the value
CommonIssues(p) ==
  NonEmptyStringIssues(p, "name")
  \cup {Issue(<<"description">>, "invalid_type") :
          x \in IF "description" \in DOMAIN p THEN {} ELSE {1}}
  \cup {Issue(<<"type">>, "invalid_enum_value") :
          x \in IF "type" \in DOMAIN p /\ p.type \in ParamTypes THEN {} ELSE {1}}

\* toolParameterSchema: required is a boolean when it is present
toolParameterIssues(p) ==
  CommonIssues(p)
  \cup {Issue(<<"required">>, "invalid_type") :
          x \in IF "required" \in DOMAIN p /\ ~IsBoolean(p.required) THEN {1} ELSE {}}

\* toolParameterSchema: the parsed value; unknown keys are stripped and
\* required defaults to false
toolParameterSchema(p) ==
  [k \in ((DOMAIN p) \cap BaseKeys) \cup {"required"} |->
     IF k = "required" /\ k \notin DOMAIN p THEN FALSE ELSE p[k]]

\* the keys a variant of parameterSchema keeps besides the base keys
VariantKeys(ty) ==
  CASE ty = "string" -> {"format", "minLength", "maxLength", "pattern", "enum", "default"}
    [] ty = "number" -> {"minimum", "maximum", "multipleOf", "format", "default"}
    [] ty = "boolean" -> {"default"}
    [] ty = "array" -> {"items", "minItems", "maxItems", "uniqueItems", "default"}
    [] ty = "object" -> {"properties", "required", "additionalProperties", "default"}
    [] OTHER -> {}

\* the union "toolParameterSchema.or(stringParameterSchema.or(...))" that the
\* items of an array and the properties of an object are parsed with. The
\* first option that accepts the value gives the result. The options for
\* string, number, boolean and array extend toolParameterSchema, so they accept
\* nothing it rejects; objectParameterSchema redeclares required as a list and
\* accepts an object whose required is a list, which toolParameterSchema rejects.
RECURSIVE nestedParameterOk(_), objectParameterIssues(_), nestedParameterIssues(_)
nestedParameterOk(p) ==
  \/ toolParameterIssues(p) = {}
  \/ CommonIssues(p) = {} /\ p.type = "object" /\ objectParameterIssues(p) = {}

\* objectParameterSchema: required is a list when it is present, and every
\* property is parsed with the union
objectParameterIssues(p) ==
  CommonIssues(p)
  \cup {Issue(<<"required">>, "invalid_type") :
          x \in IF "required" \in DOMAIN p /\ ~IsList(p.required) THEN {1} ELSE {}}
  \cup (IF "properties" \notin DOMAIN p THEN {}
        ELSE UNION {Prefix(<<"properties", j>>, nestedParameterIssues(p.properties[j])) :
                      j \in DOMAIN p.properties})

\* what the union of the items and properties adds to the error: nothing when
\* an option accepts the value, the issues of the first dirty option, which is
\* toolParameterSchema unless it is aborted, and else one issue invalid_union
nestedParameterIssues(p) ==
  IF nestedParameterOk(p) THEN {}
  ELSE IF Dirty(toolParameterIssues(p)) THEN toolParameterIssues(p)
  ELSE IF /\ "type" \in DOMAIN p
          /\ p.type = "object"
          /\ Dirty(objectParameterIssues(p)) THEN objectParameterIssues(p)
  ELSE {Issue(<<>>, "invalid_union")}

RECURSIVE nestedParameterSchema(_), objectParameterSchema(_)
nestedParameterSchema(p) ==
  IF toolParameterIssues(p) = {} THEN toolParameterSchema(p) ELSE objectParameterSchema(p)

\* objectParameterSchema: the parsed value; required has no default
objectParameterSchema(p) ==
  [k \in (DOMAIN p) \cap (BaseKeys \cup VariantKeys("object")) |->
     IF k = "properties"
       THEN [j \in DOMAIN p.properties |-> nestedParameterSchema(p.properties[j])]
       ELSE p[k]]

\* string, number, boolean and arrayParameterSchema: the issues of the fields
\* the variant adds to toolParameterSchema. The string, boolean and list
\* fields of the values built here always hold a value of the declared
\* type, so only format, the integer fields and items can raise an issue.
VariantIssues(p) ==
  CASE p.type = "string" ->
         {Issue(<<"format">>, "invalid_enum_value") :
            x \in IF "format" \in DOMAIN p /\ p.format \notin StringFormats THEN {1} ELSE {}}
         \cup IntIssues(p, {"minLength", "maxLength"})
    [] p.type = "number" ->
         {Issue(<<"format">>, "invalid_enum_value") :
            x \in IF "format" \in DOMAIN p /\ p.format \notin NumberFormats THEN {1} ELSE {}}
    [] p.type = "array" ->
         (IF "items" \notin DOMAIN p THEN {Issue(<<"items">>, "invalid_union")}
          ELSE Prefix(<<"items">>, nestedParameterIssues(p.items)))
         \cup IntIssues(p, {"minItems", "maxItems"})
    [] OTHER -> {}

\* parameterSchema, the union of the five variants: the issues of the option
\* that the type of the value selects; every option rejects a value of no type
parameterIssues(p) ==
  IF "type" \notin DOMAIN p \/ p.type \notin ParamTypes THEN CommonIssues(p)
  ELSE IF p.type = "object" THEN objectParameterIssues(p)
  ELSE toolParameterIssues(p) \cup VariantIssues(p)

parameterSchema(p) ==
  IF p.type = "object" THEN objectParameterSchema(p)
  ELSE [k \in ((DOMAIN p) \cap (BaseKeys \cup VariantKeys(p.type))) \cup {"required"} |->
          IF k = "required" /\ k \notin DOMAIN p THEN FALSE
          ELSE IF k = "items" THEN nestedParameterSchema(p.items)
          ELSE p[k]]

\* validateParameter: parameterSchema.parse, which returns the parsed value or
\* throws the ZodError with its issues
validateParameter(p) ==
  IF parameterIssues(p) = {} THEN [ok |-> TRUE, value |-> parameterSchema(p)]
  ELSE [ok |-> FALSE, issues |-> UnionIssues(parameterIssues(p))]

ToolKeys == {"name", "description", "parameters", "requiredParameters", "returns",
             "tags", "examples", "metadata"}

\* toolSchema: the issues of a value. The examples and the metadata of the
\* values built here are well-formed.
toolIssues(t) ==
  NonEmptyStringIssues(t, "name")
  \cup NonEmptyStringIssues(t, "description")
  \cup (IF "parameters" \notin DOMAIN t THEN {}
        ELSE UNION {Prefix(<<"parameters", j>>, UnionIssues(parameterIssues(t.parameters[j]))) :
                      j \in DOMAIN t.parameters})
  \cup {Issue(<<k>>, "invalid_type") :
          k \in {j \in {"requiredParameters", "tags"} \cap DOMAIN t : ~IsList(t[j])}}
  \cup (IF "returns" \notin DOMAIN t THEN {}
        ELSE Prefix(<<"returns">>, UnionIssues(parameterIssues(t.returns))))

\* toolSchema: the parsed value; unknown keys are stripped
toolSchema(t) ==
  [k \in (DOMAIN t) \cap ToolKeys |->
     IF k = "parameters" THEN [j \in DOMAIN t.parameters |-> parameterSchema(t.parameters[j])]
     ELSE IF k = "returns" THEN parameterSchema(t.returns)
     ELSE t[k]]

\* validateTool: toolSchema.parse, which returns the parsed value or throws
validateTool(t) ==
  IF toolIssues(t) = {} THEN [ok |-> TRUE, value |-> toolSchema(t)]
  ELSE [ok |-> FALSE, issues |-> toolIssues(t)]

(***************************************************************************)
(* ToolRegistry                                                            *)
(***************************************************************************)
\* the tag list the index loops run over
TagList(tool) == IF "tags" \in DOMAIN tool THEN tool.tags ELSE <<>>

\* registerTool, "Update tags index": the forEach over the tool's tags
RECURSIVE IndexTags(_, _, _)
IndexTags(tg, tagList, name) ==
  IF tagList = <<>> THEN tg
  ELSE LET tag == Head(tagList)
           tg1 == IF ~MapHas(tg, tag) THEN MapSet(tg, tag, <<>>) ELSE tg
           tg2 == MapSet(tg1, tag, SetAdd(MapGet(tg1, tag), name))
       IN  IndexTags(tg2, Tail(tagList), name)

\* registerTool that stores the caller's object instead of the parsed one
RegisterToolUnparsed(tl, tg, tool) ==
  LET v == validateTool(tool) IN
  IF ~v.ok THEN [tools |-> tl, tags |-> tg, threw |-> "validation"]
  ELSE IF MapHas(tl, v.value.name) THEN [tools |-> tl, tags |-> tg, threw |-> "duplicate"]
  ELSE [tools |-> MapSet(tl, v.value.name, tool),
        tags |-> IndexTags(tg, TagList(v.value), v.value.name),
        threw |-> "none",
        ret |-> v.value]

\* registerTool that replaces a tool of the same name instead of throwing
RegisterToolOverwrite(tl, tg, tool) ==
  LET v == validateTool(tool) IN
  IF ~v.ok THEN [tools |-> tl, tags |-> tg, threw |-> "validation"]
  ELSE [tools |-> MapSet(tl, v.value.name, v.value),
        tags |-> IndexTags(tg, TagList(v.value), v.value.name),
        threw |-> "none",
        ret |-> v.value]

\* registerTool that indexes the tags of its argument before it validates it
RegisterToolIndexFirst(tl, tg, tool) ==
  LET v == validateTool(tool) IN
  IF ~v.ok THEN [tools |-> tl, tags |-> IndexTags(tg, TagList(tool), tool.name),
                 threw |-> "validation"]
  ELSE IF MapHas(tl, v.value.name) THEN [tools |-> tl, tags |-> tg, threw |-> "duplicate"]
  ELSE [tools |-> MapSet(tl, v.value.name, v.value),
        tags |-> IndexTags(tg, TagList(v.value), v.value.name),
        threw |-> "none",
        ret |-> v.value]

\* registerTool on the registry <<tl, tg>>: the registry afterwards and the outcome
RegisterTool(tl, tg, tool) ==
  LET v == validateTool(tool) IN
  IF ~v.ok THEN [tools |-> tl, tags |-> tg, threw |-> "validation"]
  ELSE IF MapHas(tl, v.value.name) THEN [tools |-> tl, tags |-> tg, threw |-> "duplicate"]
  ELSE [tools |-> MapSet(tl, v.value.name, v.value),
        tags |-> IndexTags(tg, TagList(v.value), v.value.name),
        threw |-> "none",
        ret |-> v.value]

\* the scrub that leaves an emptied bucket in the index
RECURSIVE ScrubTagsNoPrune(_, _, _)
ScrubTagsNoPrune(tg, tagList, name) ==
  IF tagList = <<>> THEN tg
  ELSE LET tag == Head(tagList)
           tg1 == IF MapHas(tg, tag)
                    THEN MapSet(tg, tag, SetDelete(MapGet(tg, tag), name))
                    ELSE tg
       IN  ScrubTagsNoPrune(tg1, Tail(tagList), name)

\* the scrub that drops the whole bucket of each tag of the tool
RECURSIVE ScrubTagsDropBucket(_, _, _)
ScrubTagsDropBucket(tg, tagList, name) ==
  IF tagList = <<>> THEN tg
  ELSE ScrubTagsDropBucket(MapDelete(tg, Head(tagList)), Tail(tagList), name)

\* unregisterTool, "Remove from tag index": the forEach over the tool's tags
RECURSIVE ScrubTags(_, _, _)
ScrubTags(tg, tagList, name) ==
  IF tagList = <<>> THEN tg
  ELSE LET tag == Head(tagList)
           tg1 == IF MapHas(tg, tag)
                    THEN LET toolsWithTag == SetDelete(MapGet(tg, tag), name) IN
                         IF Len(toolsWithTag) = 0 THEN MapDelete(tg, tag)
                         ELSE MapSet(tg, tag, toolsWithTag)
                    ELSE tg
       IN  ScrubTags(tg1, Tail(tagList), name)

\* unregisterTool that reports success for a name it does not hold
UnregisterToolAlwaysTrue(tl, tg, name) ==
  IF ~MapHas(tl, name) THEN [tools |-> tl, tags |-> tg, ret |-> TRUE]
  ELSE [tools |-> MapDelete(tl, name),
        tags |-> ScrubTags(tg, TagList(MapGet(tl, name)), name),
        ret |-> TRUE]

\* unregisterTool that leaves the tag index alone
UnregisterToolNoScrub(tl, tg, name) ==
  IF ~MapHas(tl, name) THEN [tools |-> tl, tags |-> tg, ret |-> FALSE]
  ELSE [tools |-> MapDelete(tl, name), tags |-> tg, ret |-> TRUE]

\* unregisterTool on the registry <<tl, tg>>
UnregisterTool(tl, tg, name) ==
  IF ~MapHas(tl, name) THEN [tools |-> tl, tags |-> tg, ret |-> FALSE]
  ELSE [tools |-> MapDelete(tl, name),
        tags |-> ScrubTags(tg, TagList(MapGet(tl, name)), name),
        ret |-> TRUE]

\* registerTools that skips an element whose registration fails
RECURSIVE RegisterToolsSkip(_, _, _, _)
RegisterToolsSkip(tl, tg, batch, acc) ==
  IF batch = <<>> THEN [tools |-> tl, tags |-> tg, threw |-> "none", ret |-> acc]
  ELSE LET r == RegisterTool(tl, tg, Head(batch)) IN
       IF r.threw # "none" THEN RegisterToolsSkip(tl, tg, Tail(batch), acc)
       ELSE RegisterToolsSkip(r.tools, r.tags, Tail(batch), Append(acc, r.ret))

\* registerTools: tools.map(tool => this.registerTool(tool)); the first throw
\* ends the map
RECURSIVE RegisterTools(_, _, _, _)
RegisterTools(tl, tg, batch, acc) ==
  IF batch = <<>> THEN [tools |-> tl, tags |-> tg, threw |-> "none", ret |-> acc]
  ELSE LET r == RegisterTool(tl, tg, Head(batch)) IN
       IF r.threw # "none" THEN [tools |-> r.tools, tags |-> r.tags, threw |-> r.threw]
       ELSE RegisterTools(r.tools, r.tags, Tail(batch), Append(acc, r.ret))

\* clear that empties the tools map only
ClearToolsOnly(tl, tg) == [tools |-> <<>>, tags |-> tg]

\* clear
Clear(tl, tg) == [tools |-> <<>>, tags |-> <<>>]

\* the queries
Undefined == [undefined |-> TRUE]

getTool(tl, name) == IF MapHas(tl, name) THEN MapGet(tl, name) ELSE Undefined

hasTool(tl, name) == MapHas(tl, name)

\* getAllTools that returns the newest tool first
getAllToolsNewestFirst(tl) == [i \in 1..Len(tl) |-> tl[Len(tl) + 1 - i].value]

getAllTools(tl) == MapValues(tl)

getAllTags(tg) == MapKeys(tg)

size(tl) == Len(tl)

tagCount(tg) == Len(tg)

\* getToolsByTag that raises an error for a tag the index does not hold
getToolsByTagStrict(tl, tg, tag) ==
  IF ~MapHas(tg, tag) THEN [threw |-> TRUE]
  ELSE [threw |-> FALSE,
        ret |-> [i \in 1..Len(MapGet(tg, tag)) |-> MapGet(tl, MapGet(tg, tag)[i])]]

getToolsByTag(tl, tg, tag) ==
  IF ~MapHas(tg, tag) THEN [threw |-> FALSE, ret |-> <<>>]
  ELSE LET toolNames == MapGet(tg, tag) IN
       IF \E i \in 1..Len(toolNames) : ~MapHas(tl, toolNames[i])
         THEN [threw |-> TRUE]
         ELSE [threw |-> FALSE,
               ret |-> [i \in 1..Len(toolNames) |-> MapGet(tl, toolNames[i])]]

(***************************************************************************)
(* Inputs                                                                  *)
(***************************************************************************)
Param(ty) == [name |-> "q", description |-> "", type |-> ty]

ValidTools ==
  { [name |-> "a", description |-> "d", tags |-> <<"x">>],
    [name |-> "a", description |-> "d", tags |-> <<"y", "y">>],
    [name |-> "A", description |-> "d", tags |-> <<"x", "y">>],
    [name |-> "A", description |-> "d", tags |-> <<"y">>,
     parameters |-> [q |-> Param("string")], origin |-> "user"],
    [name |-> "b", description |-> "d"],
    [name |-> "b", description |-> "d", tags |-> <<"x">>] }

InvalidTools ==
  { [name |-> "", description |-> "d", tags |-> <<"x">>],
    [name |-> "a", description |-> "", tags |-> <<"x", "y">>],
    [name |-> "A", description |-> "d", tags |-> <<"y">>,
     parameters |-> [q |-> Param("bogus")]] }

ToolInputs == ValidTools \cup InvalidTools

BatchTools ==
  { [name |-> "a", description |-> "d", tags |-> <<"x">>],
    [name |-> "A", description |-> "d", tags |-> <<"x", "y">>],
    [name |-> "a", description |-> "", tags |-> <<"x", "y">>] }

RECURSIVE SeqsUpTo(_, _)
SeqsUpTo(S, n) ==
  IF n = 0 THEN {<<>>}
  ELSE LET shorter == SeqsUpTo(S, n - 1) IN
       shorter \cup {Append(s, e) : s \in {q \in shorter : Len(q) = n - 1}, e \in S}

BatchInputs == SeqsUpTo(BatchTools, MaxBatch)

NameInputs == Names \cup {"zz"}

(***************************************************************************)
(* The registry as a state machine                                         *)
(***************************************************************************)
Init ==
  /\ tools = <<>>
  /\ tags = <<>>
  /\ call = [op |-> "new"]
  /\ instances = <<>>
  /\ validator = <<>>

\* what the caller saw of the registry before the call
Before == [size |-> size(tools), tagCount |-> tagCount(tags)]

Outcome(op, arg, r) ==
  IF r.threw = "none"
    THEN [op |-> op, arg |-> arg, before |-> Before, threw |-> r.threw, ret |-> r.ret]
    ELSE [op |-> op, arg |-> arg, before |-> Before, threw |-> r.threw]

registerTool ==
  \E tool \in ToolInputs :
    \E r \in {RegisterTool(tools, tags, tool)} :
    /\ UNCHANGED <<instances, validator>>
    /\ tools' = r.tools
    /\ tags' = r.tags
    /\ call' = Outcome("registerTool", tool, r)

registerTools ==
  \E batch \in BatchInputs :
    \E r \in {RegisterTools(tools, tags, batch, <<>>)} :
    /\ UNCHANGED <<instances, validator>>
    /\ tools' = r.tools
    /\ tags' = r.tags
    /\ call' = Outcome("registerTools", batch, r)

unregisterTool ==
  \E name \in NameInputs :
    \E r \in {UnregisterTool(tools, tags, name)} :
    /\ UNCHANGED <<instances, validator>>
    /\ tools' = r.tools
    /\ tags' = r.tags
    /\ call' = [op |-> "unregisterTool", arg |-> name, before |-> Before, ret |-> r.ret]

clear ==
  \E r \in {Clear(tools, tags)} :
  /\ UNCHANGED <<instances, validator>>
  /\ tools' = r.tools
  /\ tags' = r.tags
  /\ call' = [op |-> "clear", before |-> Before]

Next == registerTool \/ registerTools \/ unregisterTool \/ clear

Spec == Init /\ [][Next]_vars

(***************************************************************************)
(* Properties of the registry                                              *)
(***************************************************************************)
\* the names in the bucket of a tag
Bucket(tg, tag) == IF MapHas(tg, tag) THEN Range(MapGet(tg, tag)) ELSE {}

\* the registered names whose tool lists a tag
Holders(tl, tag) ==
  {tl[i].key : i \in {j \in 1..Len(tl) : /\ "tags" \in DOMAIN tl[j].value
                                         /\ tag \in Range(tl[j].value.tags)}}

\* every tag and name the state or the inputs mention
AllTags == Tags \cup Range(MapKeys(tags))

AllNames == NameInputs \cup Range(MapKeys(tools)) \cup UNION {Bucket(tags, t) : t \in AllTags}

Count(s, x) == Cardinality({i \in 1..Len(s) : s[i] = x})

Valid(t) == toolIssues(t) = {}

Validated(t) == toolSchema(t)

\* C1: in every reachable state the two indices agree: a name is in the
\* bucket of a tag exactly when a tool of that name is registered and lists
\* the tag, and no bucket is empty.
C1_IndicesAgree ==
  /\ \A tag \in AllTags : \A n \in AllNames :
       n \in Bucket(tags, tag) <=> n \in Holders(tools, tag)
  /\ \A i \in 1..Len(tags) : Len(tags[i].value) > 0

C1_Witness ==
  /\ call.op = "registerTools"
  /\ call.threw = "duplicate"
  /\ size(tools) = 3
  /\ tagCount(tags) = 2
  /\ \E tag \in AllTags : Cardinality(Bucket(tags, tag)) >= 2

\* C2: registerTool of a valid tool with a new name returns the validated
\* form, getTool then returns that form, hasTool is true, size has grown by
\* one, and every other registered tool is unchanged.
C2_RegisterThenGet ==
  [][ (call'.op = "registerTool" /\ Valid(call'.arg) /\ ~hasTool(tools, call'.arg.name))
      => LET v == Validated(call'.arg) IN
         /\ call'.threw = "none"
         /\ call'.ret = v
         /\ getTool(tools', v.name) = v
         /\ hasTool(tools', v.name)
         /\ size(tools') = size(tools) + 1
         /\ \A n \in AllNames \ {v.name} : getTool(tools', n) = getTool(tools, n) ]_vars

C2_Witness ==
  /\ call.op = "registerTool"
  /\ call.threw = "none"
  /\ call.ret # call.arg
  /\ getTool(tools, call.arg.name) = call.ret
  /\ call.before.size = 2
  /\ size(tools) = 3

\* C3: registerTool of a valid tool whose name is registered fails with the
\* duplicate-name error and leaves the tools map and the tag index as they
\* were; a valid tool whose name differs from a registered name only in
\* letter case is registered next to it.
C3_DuplicateRejected ==
  [][ (call'.op = "registerTool" /\ Valid(call'.arg))
      => LET name == call'.arg.name IN
         /\ hasTool(tools, name)
              => /\ call'.threw = "duplicate"
                 /\ tools' = tools
                 /\ tags' = tags
         /\ \A m \in AllNames :
              (~hasTool(tools, name) /\ m # name /\ Lower(m) = Lower(name) /\ hasTool(tools, m))
                => /\ call'.threw = "none"
                   /\ hasTool(tools', name)
                   /\ getTool(tools', m) = getTool(tools, m) ]_vars

C3_Witness ==
  /\ call.op = "registerTool"
  /\ call.threw = "duplicate"
  /\ Valid(call.arg)
  /\ getTool(tools, call.arg.name) # Validated(call.arg)
  /\ hasTool(tools, "a")
  /\ hasTool(tools, "A")

\* C4: after a successful registerTool(t), getToolsByTag(tag) holds t exactly
\* once for every tag of t, also when t lists the tag twice; and in every
\* reachable state tagCount is the number of distinct tags of the registered
\* tools.
C4_TagSetSemantics ==
  /\ [](tagCount(tags) = Cardinality(UNION {Range(TagList(tools[i].value)) : i \in 1..Len(tools)}))
  /\ [][ (call'.op = "registerTool" /\ call'.threw = "none")
         => \A tag \in Range(TagList(call'.arg)) :
              \A r \in {getToolsByTag(tools', tags', tag)} :
              /\ ~r.threw
              /\ Count(r.ret, Validated(call'.arg)) = 1 ]_vars

C4_Witness ==
  /\ call.op = "registerTool"
  /\ call.threw = "none"
  /\ TagList(call.arg) = <<"y", "y">>
  /\ Len(getToolsByTag(tools, tags, "y").ret) = 2
  /\ tagCount(tags) = 2

\* C5: unregisterTool of a registered name returns true; afterwards hasTool
\* is false, the name is in no bucket, a tag only that tool held is no longer
\* among getAllTags, and every other tool and its memberships are unchanged.
C5_UnregisterPresent ==
  [][ (call'.op = "unregisterTool" /\ hasTool(tools, call'.arg))
      => LET name == call'.arg IN
         /\ call'.ret = TRUE
         /\ ~hasTool(tools', name)
         /\ \A i \in 1..Len(tags') : name \notin Range(tags'[i].value)
         /\ \A tag \in AllTags :
              Holders(tools, tag) = {name} => tag \notin Range(getAllTags(tags'))
         /\ \A n \in AllNames \ {name} :
              /\ getTool(tools', n) = getTool(tools, n)
              /\ \A tag \in AllTags : n \in Bucket(tags', tag) <=> n \in Bucket(tags, tag) ]_vars

C5_Witness ==
  /\ call.op = "unregisterTool"
  /\ call.ret = TRUE
  /\ call.before.size = 3
  /\ call.before.tagCount = 2
  /\ tagCount(tags) = 1
  /\ Cardinality(Bucket(tags, "x")) = 2

\* C6: unregisterTool of a name that is not registered returns false and
\* leaves the tools map and the tag index, hence size and tagCount, unchanged.
C6_UnregisterAbsent ==
  [][ (call'.op = "unregisterTool" /\ ~hasTool(tools, call'.arg))
      => /\ call'.ret = FALSE
         /\ tools' = tools
         /\ tags' = tags
         /\ size(tools') = size(tools)
         /\ tagCount(tags') = tagCount(tags) ]_vars

C6_Witness ==
  /\ call.op = "unregisterTool"
  /\ call.ret = FALSE
  /\ call.arg \in Names
  /\ size(tools) = 2
  /\ tagCount(tags) = 2

\* the first element of a batch whose registration fails: it is invalid, or
\* its name is registered already, or an earlier element has its name
FailsAt(tl, batch, i) ==
  \/ ~Valid(batch[i])
  \/ hasTool(tl, batch[i].name)
  \/ \E j \in 1..(i - 1) : batch[j].name = batch[i].name

Failing(tl, batch) == {i \in 1..Len(batch) : FailsAt(tl, batch, i)}

First(S) == CHOOSE i \in S : \A j \in S : i <= j

\* what a registerTools call c on the batch leaves, tl being the tools map
\* before it and tl2, tg2 the registry after it; F are the failing elements
\* and done is the number of elements before the first of them
BatchOutcome(tl, tl2, tg2, c, batch, F, done) ==
  /\ getAllTools(tl2) = getAllTools(tl) \o [j \in 1..done |-> Validated(batch[j])]
  /\ \A j \in 1..done : \A tag \in Range(TagList(batch[j])) :
       batch[j].name \in Bucket(tg2, tag)
  /\ \A j \in (done + 1)..Len(batch) :
       ~hasTool(tl, batch[j].name) /\ (\A k \in 1..done : batch[k].name # batch[j].name)
         => ~hasTool(tl2, batch[j].name)
  /\ IF F = {} THEN /\ c.threw = "none"
                    /\ c.ret = [j \in 1..Len(batch) |-> Validated(batch[j])]
     ELSE c.threw = IF Valid(batch[First(F)]) THEN "duplicate" ELSE "validation"

\* C7: registerTools registers the elements in order; at the first element
\* that fails the error propagates, the elements before it stay registered
\* with their tags indexed, and the elements after it are not registered.
C7_BatchNoRollback ==
  [][ call'.op = "registerTools"
      => \A F \in {Failing(tools, call'.arg)} :
           \A done \in {IF F = {} THEN Len(call'.arg) ELSE First(F) - 1} :
             BatchOutcome(tools, tools', tags', call', call'.arg, F, done) ]_vars

C7_Witness ==
  /\ call.op = "registerTools"
  /\ call.threw = "validation"
  /\ Len(call.arg) >= 2
  /\ Valid(call.arg[1])
  /\ hasTool(tools, call.arg[1].name)
  /\ size(tools) = call.before.size + 1
  /\ tagCount(tags) > call.before.tagCount

\* C8: registerTool of a value that fails validation raises the validation
\* error and leaves the tools map and every bucket as they were.
C8_InvalidNotApplied ==
  [][ (call'.op = "registerTool" /\ ~Valid(call'.arg))
      => /\ call'.threw = "validation"
         /\ tools' = tools
         /\ tags' = tags ]_vars

C8_Witness ==
  /\ call.op = "registerTool"
  /\ call.threw = "validation"
  /\ "parameters" \in DOMAIN call.arg
  /\ call.arg.parameters.q.type \notin ParamTypes
  /\ ~hasTool(tools, call.arg.name)
  /\ size(tools) = 1
  /\ tagCount(tags) = 1
  /\ \E tag \in Range(call.arg.tags) : ~MapHas(tags, tag)

\* C9: in no reachable state does getToolsByTag raise the inconsistency
\* error: every name in a bucket resolves to a tool of the tools map.
C9_NoInconsistency ==
  \A tag \in AllTags :
    /\ ~getToolsByTag(tools, tags, tag).threw
    /\ \A n \in Bucket(tags, tag) : hasTool(tools, n)

C9_Witness ==
  /\ call.op = "unregisterTool"
  /\ call.ret = TRUE
  /\ call.before.size = 2
  /\ Len(getToolsByTag(tools, tags, "x").ret) = 1

\* C10: clear leaves size and tagCount 0 and getAllTools and getAllTags
\* empty, and a valid tool of any name registers right after it without a
\* duplicate-name error.
C10_ClearEmpties ==
  [][ /\ call'.op = "clear"
        => /\ size(tools') = 0
           /\ tagCount(tags') = 0
           /\ getAllTools(tools') = <<>>
           /\ getAllTags(tags') = <<>>
      /\ (call.op = "clear" /\ call'.op = "registerTool" /\ Valid(call'.arg))
        => /\ call'.threw = "none"
           /\ hasTool(tools', call'.arg.name) ]_vars

C10_Witness ==
  /\ call.op = "clear"
  /\ call.before.size = 3
  /\ call.before.tagCount = 2
  /\ size(tools) = 0
  /\ tagCount(tags) = 0

(***************************************************************************)
(* The registry with its queries as calls                                  *)
(***************************************************************************)
TagInputs == Tags \cup {"nonexistent-tag"}

getToolCall ==
  \E name \in NameInputs :
    /\ UNCHANGED <<tools, tags, instances, validator>>
    /\ call' = [op |-> "getTool", arg |-> name, before |-> Before,
                ret |-> getTool(tools, name)]

getToolsByTagCall ==
  \E tag \in TagInputs :
    \E r \in {getToolsByTag(tools, tags, tag)} :
    /\ UNCHANGED <<tools, tags, instances, validator>>
    /\ call' = IF r.threw
                 THEN [op |-> "getToolsByTag", arg |-> tag, before |-> Before,
                       threw |-> TRUE]
                 ELSE [op |-> "getToolsByTag", arg |-> tag, before |-> Before,
                       threw |-> FALSE, ret |-> r.ret]

NextQuery == Next \/ getToolCall \/ getToolsByTagCall

SpecQuery == Init /\ [][NextQuery]_vars

\* C11: getToolsByTag for a tag that no registered tool holds returns the
\* empty sequence, raises no error and leaves the tools map and the tag index
\* as they were; getTool of a name that is not registered returns undefined
\* and leaves them as they were.
C11_MissIsEmpty ==
  [][ /\ (call'.op = "getToolsByTag" /\ Holders(tools, call'.arg) = {})
        => /\ call'.threw = FALSE
           /\ call'.ret = <<>>
           /\ tools' = tools
           /\ tags' = tags
      /\ (call'.op = "getTool" /\ ~hasTool(tools, call'.arg))
        => /\ call'.ret = Undefined
           /\ tools' = tools
           /\ tags' = tags ]_vars

\* the registry holds two tools, none of them with the tag x, and
\* getToolsByTag("x") has returned the empty sequence
C11_Witness ==
  /\ call.op = "getToolsByTag"
  /\ call.arg = "x"
  /\ call.threw = FALSE
  /\ call.ret = <<>>
  /\ size(tools) = 2
  /\ tagCount(tags) = 1
  /\ ~MapHas(tags, "x")

(***************************************************************************)
(* toolToJsonSchema                                                        *)
(***************************************************************************)
\* the truthiness of a string, a number, a boolean or an array: the empty
\* string, 0 and false are falsy, every array is truthy
Truthy(v) == ToString(v) \notin {ToString(""), "0", "FALSE"}

\* the outcome of a call that throws a TypeError
TypeError == [threw |-> "TypeError"]

Threw(r) == "threw" \in DOMAIN r

\* the keys of ks that the spreads "...(param.k !== undefined && {k: param.k})"
\* copy
Defined(param, ks) == {k \in ks : k \in DOMAIN param}

\* the keys of ks that the spreads "...(param.k && {k: param.k})" copy
TruthyOf(param, ks) == {k \in ks : k \in DOMAIN param /\ Truthy(param[k])}

\* the read of a field that may be absent
Field(o, k) == IF k \in DOMAIN o THEN o[k] ELSE Undefined

\* parameterToJsonSchema that gives an object without properties a schema
\* without properties
RECURSIVE parameterToJsonSchemaBare(_)
parameterToJsonSchemaBare(param) ==
  IF param = Undefined THEN TypeError
  ELSE
  LET base == [type |-> Field(param, "type"), description |-> Field(param, "description")]
      Copy(ks) == [k \in {"type", "description"} \cup ks |->
                     IF k \in DOMAIN base THEN base[k] ELSE param[k]]
      ty == IF "type" \in DOMAIN param THEN param.type ELSE ""
  IN
  CASE ty = "string" ->
         Copy(TruthyOf(param, {"format", "pattern", "enum"})
              \cup Defined(param, {"minLength", "maxLength", "default"}))
    [] ty = "number" ->
         Copy(Defined(param, {"minimum", "maximum", "multipleOf", "default"})
              \cup TruthyOf(param, {"format"}))
    [] ty = "boolean" -> Copy(Defined(param, {"default"}))
    [] ty = "array" ->
         LET items == parameterToJsonSchemaBare(Field(param, "items")) IN
         IF Threw(items) THEN TypeError
         ELSE [k \in {"type", "description", "items"}
                     \cup Defined(param, {"minItems", "maxItems", "uniqueItems", "default"}) |->
                 IF k = "items" THEN items
                 ELSE IF k \in DOMAIN base THEN base[k] ELSE param[k]]
    [] ty = "object" ->
         LET entries == IF "properties" \in DOMAIN param THEN DOMAIN param.properties ELSE {}
             properties == [j \in entries |-> parameterToJsonSchemaBare(param.properties[j])]
         IN
         IF /\ entries # {}
            /\ "required" \in DOMAIN param
            /\ IsBoolean(param.required)
           THEN TypeError
         ELSE IF \E j \in entries : Threw(properties[j]) THEN TypeError
         ELSE [k \in {"type", "description"}
                     \cup Defined(param, {"properties"})
                     \cup TruthyOf(param, {"required"})
                     \cup Defined(param, {"additionalProperties", "default"}) |->
                 IF k = "properties" THEN properties
                 ELSE IF k \in DOMAIN base THEN base[k] ELSE param[k]]
    [] OTHER -> base

\* parameterToJsonSchema(param, isRequired); the body never reads isRequired,
\* so the argument is left out. An absent param (the items of an array without
\* items) is Undefined, and the read of its type throws. In an object with
\* properties, "objectParam.required?.includes(propName)" throws when required
\* is a boolean, which has no method includes.
RECURSIVE parameterToJsonSchema(_)
parameterToJsonSchema(param) ==
  IF param = Undefined THEN TypeError
  ELSE
  LET base == [type |-> Field(param, "type"), description |-> Field(param, "description")]
      Copy(ks) == [k \in {"type", "description"} \cup ks |->
                     IF k \in DOMAIN base THEN base[k] ELSE param[k]]
      ty == IF "type" \in DOMAIN param THEN param.type ELSE ""
  IN
  CASE ty = "string" ->
         Copy(TruthyOf(param, {"format", "pattern", "enum"})
              \cup Defined(param, {"minLength", "maxLength", "default"}))
    [] ty = "number" ->
         Copy(Defined(param, {"minimum", "maximum", "multipleOf", "default"})
              \cup TruthyOf(param, {"format"}))
    [] ty = "boolean" -> Copy(Defined(param, {"default"}))
    [] ty = "array" ->
         LET items == parameterToJsonSchema(Field(param, "items")) IN
         IF Threw(items) THEN TypeError
         ELSE [k \in {"type", "description", "items"}
                     \cup Defined(param, {"minItems", "maxItems", "uniqueItems", "default"}) |->
                 IF k = "items" THEN items
                 ELSE IF k \in DOMAIN base THEN base[k] ELSE param[k]]
    [] ty = "object" ->
         LET entries == IF "properties" \in DOMAIN param THEN DOMAIN param.properties ELSE {}
             properties == [j \in entries |-> parameterToJsonSchema(param.properties[j])]
         IN
         IF /\ entries # {}
            /\ "required" \in DOMAIN param
            /\ IsBoolean(param.required)
           THEN TypeError
         ELSE IF \E j \in entries : Threw(properties[j]) THEN TypeError
         ELSE [k \in {"type", "description", "properties"}
                     \cup TruthyOf(param, {"required"})
                     \cup Defined(param, {"additionalProperties", "default"}) |->
                 IF k = "properties" THEN properties
                 ELSE IF k \in DOMAIN base THEN base[k] ELSE param[k]]
    [] OTHER -> base

\* toolToJsonSchema that ignores the requiredParameters of the tool
toolToJsonSchemaNoRequired(tool) ==
  LET entries == IF "parameters" \in DOMAIN tool THEN DOMAIN tool.parameters ELSE {}
      properties == [name \in entries |-> parameterToJsonSchema(tool.parameters[name])]
      returns == IF "returns" \in DOMAIN tool THEN parameterToJsonSchema(tool.returns)
                 ELSE Undefined
  IN
  IF \E name \in entries : Threw(properties[name]) THEN TypeError
  ELSE IF Threw(returns) THEN TypeError
  ELSE [k \in {"name", "description", "parameters"}
              \cup {j \in {"returns"} : j \in DOMAIN tool} |->
          CASE k = "name" -> Field(tool, "name")
            [] k = "description" -> Field(tool, "description")
            [] k = "parameters" ->
                 [type |-> "object", properties |-> properties, required |-> <<>>]
            [] k = "returns" -> returns]

\* toolToJsonSchema: the schema, or TypeError when the conversion throws.
\* "required.includes(name)" throws when requiredParameters is a boolean.
toolToJsonSchema(tool) ==
  LET required == IF "requiredParameters" \in DOMAIN tool THEN tool.requiredParameters
                  ELSE <<>>
      entries == IF "parameters" \in DOMAIN tool THEN DOMAIN tool.parameters ELSE {}
      properties == [name \in entries |-> parameterToJsonSchema(tool.parameters[name])]
      returns == IF "returns" \in DOMAIN tool THEN parameterToJsonSchema(tool.returns)
                 ELSE Undefined
  IN
  IF entries # {} /\ IsBoolean(required) THEN TypeError
  ELSE IF \E name \in entries : Threw(properties[name]) THEN TypeError
  ELSE IF Threw(returns) THEN TypeError
  ELSE [k \in {"name", "description", "parameters"}
              \cup {j \in {"returns"} : j \in DOMAIN tool} |->
          CASE k = "name" -> Field(tool, "name")
            [] k = "description" -> Field(tool, "description")
            [] k = "parameters" ->
                 [type |-> "object", properties |-> properties, required |-> required]
            [] k = "returns" -> returns]

(***************************************************************************)
(* The built-in tools (src/src/toolConfiguration/builtInTools.ts)          *)
(***************************************************************************)
httpRequestTool ==
  [name |-> "httpRequest",
   description |-> "Make an HTTP request to an external API",
   parameters |->
     [url |->
        [name |-> "url",
         description |-> "The URL to send the request to",
         type |-> "string",
         required |-> TRUE],
      method |->
        [name |-> "method",
         description |-> "The HTTP method to use",
         type |-> "string",
         required |-> TRUE,
         enum |-> <<"GET", "POST", "PUT", "DELETE", "PATCH", "HEAD", "OPTIONS">>],
      headers |->
        [name |-> "headers",
         description |-> "HTTP headers to include in the request",
         type |-> "object",
         required |-> FALSE,
         properties |-> <<>>,
         additionalProperties |-> TRUE],
      queryParameters |->
        [name |-> "queryParameters",
         description |-> "Query parameters to include in the URL",
         type |-> "object",
         required |-> FALSE,
         properties |-> <<>>,
         additionalProperties |-> TRUE],
      body |->
        [name |-> "body",
         description |-> "The body of the request (for POST, PUT, PATCH)",
         type |-> "string",
         required |-> FALSE]],
   requiredParameters |-> <<"url", "method">>,
   returns |->
     [name |-> "response",
      description |-> "The HTTP response",
      type |-> "object",
      properties |->
        [statusCode |->
           [name |-> "statusCode",
            description |-> "The HTTP status code",
            type |-> "number",
            required |-> TRUE],
         headers |->
           [name |-> "headers",
            description |-> "The response headers",
            type |-> "object",
            required |-> TRUE,
            properties |-> <<>>,
            additionalProperties |-> TRUE],
         body |->
           [name |-> "body",
            description |-> "The response body",
            type |-> "string",
            required |-> TRUE]],
      required |-> TRUE],
   tags |-> <<"http", "api", "external">>,
   examples |->
     <<[input |->
          [url |-> "https://api.example.com/data",
           method |-> "GET",
           headers |->
             (("Content-Type" :> "application/json")
              @@ ("Authorization" :> "Bearer abc123"))],
        output |->
          [statusCode |-> 200,
           headers |-> ("content-type" :> "application/json"),
           body |-> "{\"data\": {\"id\": 1, \"name\": \"Example\"}}"],
        description |-> "Get data from an example API"]>>]

databaseQueryTool ==
  [name |-> "databaseQuery",
   description |-> "Query a database to retrieve or manipulate data",
   parameters |->
     [connectionName |->
        [name |-> "connectionName",
         description |-> "The name of the database connection to use",
         type |-> "string",
         required |-> TRUE],
      query |->
        [name |-> "query",
         description |-> "The SQL query to execute",
         type |-> "string",
         required |-> TRUE],
      parameters |->
        [name |-> "parameters",
         description |-> "Parameters for the query (to prevent SQL injection)",
         type |-> "array",
         required |-> FALSE,
         items |->
           [name |-> "parameter",
            description |-> "A parameter value",
            type |-> "string",
            required |-> TRUE]]],
   requiredParameters |-> <<"connectionName", "query">>,
   returns |->
     [name |-> "result",
      description |-> "The query result",
      type |-> "object",
      properties |->
        [rows |->
           [name |-> "rows",
            description |-> "The rows returned by the query",
            type |-> "array",
            required |-> TRUE,
            items |->
              [name |-> "row",
               description |-> "A result row",
               type |-> "object",
               required |-> TRUE,
               properties |-> <<>>,
               additionalProperties |-> TRUE]],
         rowCount |->
           [name |-> "rowCount",
            description |-> "The number of rows affected or returned",
            type |-> "number",
            required |-> TRUE]],
      required |-> TRUE],
   tags |-> <<"database", "sql", "data">>,
   examples |->
     <<[input |->
          [connectionName |-> "postgres",
           query |-> "SELECT * FROM users WHERE id = $1",
           parameters |-> <<"123">>],
        output |->
          [rows |-> <<[id |-> 123, name |-> "John Doe", email |-> "john@example.com"]>>,
           rowCount |-> 1],
        description |-> "Query a user from a PostgreSQL database"]>>]

fileOperationTool ==
  [name |-> "fileOperation",
   description |-> "Perform operations on files and directories",
   parameters |->
     [operation |->
        [name |-> "operation",
         description |-> "The operation to perform",
         type |-> "string",
         required |-> TRUE,
         enum |-> <<"read", "write", "list", "delete", "exists">>],
      path |->
        [name |-> "path",
         description |-> "The path to the file or directory",
         type |-> "string",
         required |-> TRUE],
      content |->
        [name |-> "content",
         description |-> "The content to write (for write operation)",
         type |-> "string",
         required |-> FALSE],
      encoding |->
        [name |-> "encoding",
         description |-> "The encoding to use for reading or writing",
         type |-> "string",
         required |-> FALSE,
         default |-> "utf8"]],
   requiredParameters |-> <<"operation", "path">>,
   returns |->
     [name |-> "result",
      description |-> "The result of the file operation",
      type |-> "object",
      properties |->
        [success |->
           [name |-> "success",
            description |-> "Whether the operation was successful",
            type |-> "boolean",
            required |-> TRUE],
         data |->
           [name |-> "data",
            description |-> "The operation result data",
            type |-> "string",
            required |-> FALSE],
         files |->
           [name |-> "files",
            description |-> "List of files (for list operation)",
            type |-> "array",
            required |-> FALSE,
            items |->
              [name |-> "file",
               description |-> "A file or directory",
               type |-> "object",
               required |-> TRUE,
               properties |->
                 [name |->
                    [name |-> "name",
                     description |-> "The file or directory name",
                     type |-> "string",
                     required |-> TRUE],
                  path |->
                    [name |-> "path",
                     description |-> "The full path",
                     type |-> "string",
                     required |-> TRUE],
                  type |->
                    [name |-> "type",
                     description |-> "The item type (file or directory)",
                     type |-> "string",
                     required |-> TRUE,
                     enum |-> <<"file", "directory">>],
                  size |->
                    [name |-> "size",
                     description |-> "The file size in bytes",
                     type |-> "number",
                     required |-> FALSE]]]],
         error |->
           [name |-> "error",
            description |-> "Error message if the operation failed",
            type |-> "string",
            required |-> FALSE]],
      required |-> TRUE],
   tags |-> <<"file", "filesystem", "io">>]

weatherTool ==
  [name |-> "weatherInfo",
   description |-> "Get weather information for a location",
   parameters |->
     [location |->
        [name |-> "location",
         description |-> "The location to get weather for (city name, zip code, or coordinates)",
         type |-> "string",
         required |-> TRUE],
      units |->
        [name |-> "units",
         description |-> "The units to use for temperature and other measurements",
         type |-> "string",
         required |-> FALSE,
         enum |-> <<"metric", "imperial">>,
         default |-> "metric"]],
   requiredParameters |-> <<"location">>,
   returns |->
     [name |-> "weather",
      description |-> "Weather information",
      type |-> "object",
      properties |->
        [temperature |->
           [name |-> "temperature",
            description |-> "Current temperature",
            type |-> "number",
            required |-> TRUE],
         feelsLike |->
           [name |-> "feelsLike",
            description |-> "What the temperature feels like",
            type |-> "number",
            required |-> TRUE],
         conditions |->
           [name |-> "conditions",
            description |-> "Weather conditions description",
            type |-> "string",
            required |-> TRUE],
         humidity |->
           [name |-> "humidity",
            description |-> "Humidity percentage",
            type |-> "number",
            required |-> TRUE],
         windSpeed |->
           [name |-> "windSpeed",
            description |-> "Wind speed",
            type |-> "number",
            required |-> TRUE],
         forecast |->
           [name |-> "forecast",
            description |-> "Forecast for upcoming days",
            type |-> "array",
            required |-> FALSE,
            items |->
              [name |-> "day",
               description |-> "Forecast for a single day",
               type |-> "object",
               required |-> TRUE,
               properties |->
                 [date |->
                    [name |-> "date",
                     description |-> "The date of the forecast",
                     type |-> "string",
                     required |-> TRUE],
                  high |->
                    [name |-> "high",
                     description |-> "High temperature",
                     type |-> "number",
                     required |-> TRUE],
                  low |->
                    [name |-> "low",
                     description |-> "Low temperature",
                     type |-> "number",
                     required |-> TRUE],
                  conditions |->
                    [name |-> "conditions",
                     description |-> "Weather conditions description",
                     type |-> "string",
                     required |-> TRUE]]]]],
      required |-> TRUE],
   tags |-> <<"weather", "external", "api">>]

builtInTools == <<httpRequestTool, databaseQueryTool, fileOperationTool, weatherTool>>

\* registerBuiltInTools that sets a built-in tool over a tool of the same name
RECURSIVE RegisterBuiltInToolsOverwrite(_, _, _)
RegisterBuiltInToolsOverwrite(tl, tg, rest) ==
  IF rest = <<>> THEN [tools |-> tl, tags |-> tg, threw |-> "none"]
  ELSE IF hasTool(tl, Head(rest).name)
    THEN RegisterBuiltInToolsOverwrite(MapSet(tl, Head(rest).name, Head(rest)), tg, Tail(rest))
  ELSE LET r == RegisterTool(tl, tg, Head(rest)) IN
       IF r.threw # "none" THEN [tools |-> r.tools, tags |-> r.tags, threw |-> r.threw]
       ELSE RegisterBuiltInToolsOverwrite(r.tools, r.tags, Tail(rest))

\* registerBuiltInTools on the registry <<tl, tg>>: the forEach over rest, which
\* registers every tool whose name the registry does not hold; the first throw
\* of registerTool ends it
RECURSIVE RegisterBuiltInTools(_, _, _)
RegisterBuiltInTools(tl, tg, rest) ==
  IF rest = <<>> THEN [tools |-> tl, tags |-> tg, threw |-> "none"]
  ELSE IF hasTool(tl, Head(rest).name) THEN RegisterBuiltInTools(tl, tg, Tail(rest))
  ELSE LET r == RegisterTool(tl, tg, Head(rest)) IN
       IF r.threw # "none" THEN [tools |-> r.tools, tags |-> r.tags, threw |-> r.threw]
       ELSE RegisterBuiltInTools(r.tools, r.tags, Tail(rest))

(***************************************************************************)
(* Inputs of the validation and of the converter                           *)
(***************************************************************************)
\* the optional fields of each variant: none of them, all of them, and all of
\* them with the values that are empty or that JavaScript takes for false
StringFields ==
  << <<>>,
     [format |-> "email", minLength |-> 1, maxLength |-> 5, pattern |-> "^a",
      enum |-> <<"GET", "POST">>, default |-> "GET"],
     [format |-> "text", minLength |-> 0, maxLength |-> 0, pattern |-> "",
      enum |-> <<>>, default |-> ""] >>

NumberFields ==
  << <<>>,
     [minimum |-> 1, maximum |-> 9, multipleOf |-> 2, format |-> "int32", default |-> 3],
     [minimum |-> 0, maximum |-> 0, multipleOf |-> 0, format |-> "float", default |-> 0] >>

BooleanFields == << <<>>, [default |-> TRUE], [default |-> FALSE] >>

ArrayFields ==
  << <<>>,
     [minItems |-> 1, maxItems |-> 3, uniqueItems |-> TRUE, default |-> <<"v">>],
     [minItems |-> 0, maxItems |-> 0, uniqueItems |-> FALSE, default |-> <<>>] >>

ObjectFields ==
  << <<>>,
     [required |-> <<"list">>, additionalProperties |-> TRUE, default |-> [k |-> "v"]],
     [required |-> <<>>, additionalProperties |-> FALSE, default |-> <<>>] >>

Variants == 1..3

Parameter(name, type, fields) ==
  fields @@ [name |-> name, description |-> "about " \o name, type |-> type]

Leaves == 1..9

Leaf(l) ==
  CASE l \in 1..3 -> Parameter("leaf", "string", StringFields[l])
    [] l \in 4..6 -> Parameter("leaf", "number", NumberFields[l - 3])
    [] l \in 7..9 -> Parameter("leaf", "boolean", BooleanFields[l - 6])

\* an object whose property list is an array whose items are an object whose
\* property leaf is a string, a number or a boolean
ChainParameter(o1, a, o2, l) ==
  Parameter("cfg", "object", ObjectFields[o1] @@
    [properties |->
       [list |-> Parameter("list", "array", ArrayFields[a] @@
          [items |-> Parameter("item", "object", ObjectFields[o2] @@
             [properties |-> [leaf |-> Leaf(l)]])])]])

ChainTool(o1, a, o2, l) ==
  [name |-> "chain", description |-> "a chain", parameters |-> [cfg |-> ChainParameter(o1, a, o2, l)]]

\* the tool of the usage example: url and method, both required
exampleTool ==
  [name |-> "httpRequest", description |-> "Make an HTTP request",
   parameters |-> [url |-> Parameter("url", "string", <<>>),
                   method |-> Parameter("method", "string", [enum |-> <<"GET", "POST">>])],
   requiredParameters |-> <<"url", "method">>]

\* a tool that requires a parameter it does not declare
ghostTool ==
  [name |-> "probe", description |-> "d",
   parameters |-> [q |-> Parameter("q", "string", <<>>)],
   requiredParameters |-> <<"ghost", "q">>,
   returns |-> Parameter("out", "object",
                 [properties |-> [n |-> Parameter("n", "number", <<>>)],
                  required |-> <<"n">>])]

\* tools with an array below an array and an array below an object; the inner
\* array has items in matrix and none in ragged and in table
matrixTool ==
  [name |-> "matrix", description |-> "d",
   parameters |-> [m |-> Parameter("m", "array",
     [items |-> Parameter("row", "array", [items |-> Parameter("cell", "number", <<>>)])])]]

raggedTool ==
  [name |-> "ragged", description |-> "d",
   parameters |-> [m |-> Parameter("m", "array", [items |-> Parameter("row", "array", <<>>)])]]

tableTool ==
  [name |-> "table", description |-> "d",
   returns |-> Parameter("t", "object",
     [properties |-> [rows |-> Parameter("rows", "array", <<>>)]])]

\* a tool whose only array has no items
bareArrayTool ==
  [name |-> "bare", description |-> "d", parameters |-> [m |-> Parameter("m", "array", <<>>)]]

\* a tool with objects without properties: as a parameter, as a property of
\* an object and as the items of an array
nestTool ==
  [name |-> "nest", description |-> "d",
   parameters |->
     [cfg |-> Parameter("cfg", "object", <<>>),
      outer |-> Parameter("outer", "object",
        [properties |->
           [inner |-> Parameter("inner", "object", [additionalProperties |-> TRUE]),
            list |-> Parameter("list", "array",
                       [items |-> Parameter("item", "object", <<>>)])]])],
   returns |-> Parameter("out", "object", <<>>)]

\* a tool without parameters
plainTool == [name |-> "plain", description |-> "d"]

\* parameters with a negative length
negativeParameters ==
  << Parameter("s", "string", [minLength |-> -1]),
     Parameter("s", "string", [maxLength |-> -2]),
     Parameter("l", "array", [items |-> Parameter("i", "string", <<>>), minItems |-> -1]),
     Parameter("l", "array", [items |-> Parameter("i", "string", <<>>), maxItems |-> -3]) >>

negativeTool(i) ==
  [name |-> "probe", description |-> "d", parameters |-> [p |-> negativeParameters[i]]]

\* parameters with two violations and more: an empty name and no description,
\* no description and an unknown format, an empty name and items with an
\* empty name, no name and a required list on a string
brokenParameters ==
  << [name |-> "", type |-> "string"],
     [name |-> "s", type |-> "string", format |-> "bogus"],
     [name |-> "", description |-> "d", type |-> "array",
      items |-> [name |-> "", description |-> "d", type |-> "string"]],
     [description |-> "d", type |-> "string", required |-> <<"s">>] >>

\* tools with two violations and more: an empty name, an empty description
\* and tags that are no list; the same with a broken parameter
brokenTools ==
  << [name |-> "", description |-> "", tags |-> TRUE],
     [name |-> "", description |-> "d", requiredParameters |-> FALSE, tags |-> TRUE],
     [name |-> "", description |-> "", parameters |-> [p |-> brokenParameters[1]]],
     [name |-> "t", description |-> "d",
      parameters |-> [p |-> brokenParameters[2], q |-> brokenParameters[4]]],
     [name |-> "t", description |-> "",
      parameters |-> [p |-> brokenParameters[3]]] >>

\* the arrays of the JavaScript heap that a tool refers to: the tool holds the
\* address of an array where the tools above hold the array itself, so that
\* two objects can hold one and the same array
sharedHeap == << <<"GET", "POST">>, <<"v">>, <<"k">>, <<"method">> >>

sharedTool ==
  [name |-> "shared", description |-> "d",
   parameters |->
     [method |-> Parameter("method", "string", [enum |-> 1]),
      list |-> Parameter("list", "array",
                 [items |-> Parameter("i", "string", <<>>), default |-> 2]),
      cfg |-> Parameter("cfg", "object", [required |-> 3])],
   requiredParameters |-> 4]

\* the length up to which a caller extends an array
MaxLen == 3

ToolList ==
  builtInTools \o <<exampleTool, ghostTool, matrixTool, raggedTool, tableTool, bareArrayTool>>
  \o [i \in 1..Len(negativeParameters) |-> negativeTool(i)] \o brokenTools
  \o <<nestTool, plainTool>>

ParameterList ==
  negativeParameters \o brokenParameters
  \o [l \in Leaves |-> Leaf(l)]
  \o <<ChainParameter(2, 2, 2, 2), matrixTool.parameters.m, raggedTool.parameters.m,
       bareArrayTool.parameters.m, httpRequestTool.returns, httpRequestTool.parameters.headers>>

(***************************************************************************)
(* The validation, the converter and the built-in tools as calls           *)
(***************************************************************************)
\* the record of a call of toolToJsonSchema on a tool taken from a list
Conversion(from, tool) ==
  LET r == toolToJsonSchema(tool) IN
  IF Threw(r)
    THEN [op |-> "toolToJsonSchema", from |-> from, arg |-> tool, threw |-> r.threw]
    ELSE [op |-> "toolToJsonSchema", from |-> from, arg |-> tool, threw |-> "none", ret |-> r]

\* the record of a call of validateTool or validateParameter
Validation(op, from, arg, r) ==
  IF r.ok
    THEN [op |-> op, from |-> from, arg |-> arg, ok |-> TRUE, value |-> r.value]
    ELSE [op |-> op, from |-> from, arg |-> arg, ok |-> FALSE, issues |-> r.issues]

ListOf(i) == IF i <= Len(builtInTools) THEN "builtInTools" ELSE "ToolList"

\* the calls on the inputs, each input with its outcome
ParameterValidations ==
  [i \in 1..Len(ParameterList) |->
     Validation("validateParameter", "ParameterList", ParameterList[i],
                validateParameter(ParameterList[i]))]

ToolValidations ==
  [i \in 1..Len(ToolList) |->
     Validation("validateTool", ListOf(i), ToolList[i], validateTool(ToolList[i]))]

ChainValidations ==
  [v \in Variants, l \in Leaves |->
     Validation("validateTool", "ChainTool", ChainTool(v, v, v, l),
                validateTool(ChainTool(v, v, v, l)))]

ToolConversions == [i \in 1..Len(ToolList) |-> Conversion(ListOf(i), ToolList[i])]

ChainConversions ==
  [o1 \in Variants, a \in Variants, o2 \in Variants, l \in Leaves |->
     Conversion("ChainTool", ChainTool(o1, a, o2, l))]

validateParameterCall ==
  /\ UNCHANGED <<tools, tags, instances, validator>>
  /\ \E i \in 1..Len(ParameterList) : call' = ParameterValidations[i]

validateToolCall ==
  /\ UNCHANGED <<tools, tags, instances, validator>>
  /\ \/ \E i \in 1..Len(ToolList) : call' = ToolValidations[i]
     \/ \E v \in Variants, l \in Leaves : call' = ChainValidations[v, l]

toolToJsonSchemaCall ==
  /\ UNCHANGED <<tools, tags, instances, validator>>
  /\ \/ \E i \in 1..Len(ToolList) : call' = ToolConversions[i]
     \/ \E o1 \in Variants, a \in Variants, o2 \in Variants, l \in Leaves :
          call' = ChainConversions[o1, a, o2, l]

\* toolToJsonSchema of the tool that validateTool has just returned
toolToJsonSchemaValidated ==
  /\ call.op = "validateTool"
  /\ call.ok
  /\ UNCHANGED <<tools, tags, instances, validator>>
  /\ call' = Conversion("validateTool", call.value)

\* toolToJsonSchema of the tool whose arrays are arrays of the heap
toolToJsonSchemaShared ==
  /\ UNCHANGED <<tools, tags, instances, validator>>
  /\ call' = [heap |-> sharedHeap] @@ Conversion("sharedTool", sharedTool)

\* the fields of a parameter or of its schema that hold an array
ArrayKeys(type) ==
  CASE type = "string" -> {"enum"}
    [] type = "array" -> {"default"}
    [] type = "object" -> {"required"}
    [] OTHER -> {}

\* the addresses of the arrays reachable from the schema of a parameter
RECURSIVE ParameterArrays(_)
ParameterArrays(schema) ==
  {schema[k] : k \in ArrayKeys(schema.type) \cap DOMAIN schema}
  \cup (IF "items" \in DOMAIN schema THEN ParameterArrays(schema.items) ELSE {})
  \cup (IF "properties" \in DOMAIN schema
          THEN UNION {ParameterArrays(schema.properties[j]) : j \in DOMAIN schema.properties}
          ELSE {})

\* the addresses of the arrays reachable from the result of toolToJsonSchema
SchemaArrays(schema) ==
  {schema.parameters.required}
  \cup UNION {ParameterArrays(schema.parameters.properties[j]) :
                j \in DOMAIN schema.parameters.properties}

\* the caller pushes a value onto an array reachable from the result
push ==
  /\ "heap" \in DOMAIN call
  /\ UNCHANGED <<tools, tags, instances, validator>>
  /\ \E a \in SchemaArrays(call.ret) :
       /\ Len(call.heap[a]) < MaxLen
       /\ call' = [call EXCEPT !.op = "push", !.heap[a] = Append(@, "pushed")]

\* the tools registered one by one: the built-in tool httpRequest, the tool
\* that requires an undeclared parameter, a tool with a negative length, and
\* the tool of the usage example, a user tool with the name of a built-in one
RegisterList == <<httpRequestTool, ghostTool, negativeTool(1), exampleTool>>

registerToolCall ==
  \E i \in 1..Len(RegisterList) :
    \E r \in {RegisterTool(tools, tags, RegisterList[i])} :
    /\ UNCHANGED <<instances, validator>>
    /\ tools' = r.tools
    /\ tags' = r.tags
    /\ call' = [op |-> "registerTool", from |-> IF i = 1 THEN "builtInTools" ELSE "RegisterList",
                arg |-> RegisterList[i],
                before |-> Before, threw |-> r.threw]

registerBuiltInTools ==
  \E r \in {RegisterBuiltInTools(tools, tags, builtInTools)} :
  /\ UNCHANGED <<instances, validator>>
  /\ tools' = r.tools
  /\ tags' = r.tags
  /\ call' = [op |-> "registerBuiltInTools", before |-> Before, threw |-> r.threw]

NextSchema ==
  \/ validateParameterCall
  \/ validateToolCall
  \/ toolToJsonSchemaCall
  \/ toolToJsonSchemaValidated
  \/ toolToJsonSchemaShared
  \/ push
  \/ registerToolCall
  \/ registerBuiltInTools

SpecSchema == Init /\ [][NextSchema]_vars

(***************************************************************************)
(* Properties of the converter and of the validation                       *)
(***************************************************************************)
\* the optional constraint fields of a parameter of a type
ConstraintKeys(type) == VariantKeys(type) \ {"items", "properties"}

\* the schema has the type and the description of the parameter and each
\* constraint field of the parameter with its value, no other constraint
\* field, and so at every depth
RECURSIVE PreservesFields(_, _)
PreservesFields(param, schema) ==
  LET ks == ConstraintKeys(param.type) \cap DOMAIN param IN
  /\ schema.type = param.type
  /\ schema.description = param.description
  /\ \A k \in ks : k \in DOMAIN schema /\ schema[k] = param[k]
  /\ DOMAIN schema \subseteq {"type", "description", "items", "properties"} \cup ks
  /\ param.type = "array" => PreservesFields(param.items, schema.items)
  /\ (param.type = "object" /\ "properties" \in DOMAIN param)
       => \A j \in DOMAIN param.properties :
            PreservesFields(param.properties[j], schema.properties[j])

\* C12: toolToJsonSchema of a tool with a chain object -> array -> object
\* returns a schema that has, for the parameter at every depth, the type, the
\* description and every constraint field the parameter has, with its value,
\* and no constraint field the parameter has not.
C12_PreservesFields ==
  (call.op = "toolToJsonSchema" /\ call.from = "ChainTool")
    => /\ call.threw = "none"
       /\ PreservesFields(call.arg.parameters.cfg, call.ret.parameters.properties.cfg)

\* a parameter as its reader sees it: each address replaced by the array that
\* the heap holds there
RECURSIVE Resolve(_, _)
Resolve(param, heap) ==
  [k \in DOMAIN param |->
     IF k \in ArrayKeys(param.type) THEN heap[param[k]]
     ELSE IF k = "items" THEN Resolve(param.items, heap)
     ELSE IF k = "properties"
       THEN [j \in DOMAIN param.properties |-> Resolve(param.properties[j], heap)]
     ELSE param[k]]

ResolveTool(tool, heap) ==
  [k \in DOMAIN tool |->
     IF k = "requiredParameters" THEN heap[tool[k]]
     ELSE IF k = "parameters"
       THEN [j \in DOMAIN tool.parameters |-> Resolve(tool.parameters[j], heap)]
     ELSE tool[k]]

\* C13: the result of toolToJsonSchema shares no array with its argument: a
\* push onto an array reachable from the result leaves the tool that was
\* converted as it was.
C13_NoAliasing ==
  [][ call'.op = "push"
      => ResolveTool(call'.arg, call'.heap) = ResolveTool(call.arg, call.heap) ]_vars

\* C15: the result of toolToJsonSchema has the keys name, description and
\* parameters, and returns exactly when the tool has returns; parameters has
\* the type object, one property for each parameter of the tool, and as
\* required the requiredParameters of the tool as they are, or the empty list
\* when the tool has none. registerTool accepts a tool that requires a
\* parameter it does not declare, and the schema of the registered tool still
\* requires it. The schema of the tool httpRequest of the usage example has
\* url of type string, the enum GET, POST for method and url, method required.
C15_SchemaShape ==
  /\ [](/\ (call.op = "toolToJsonSchema" /\ call.threw = "none")
             => /\ DOMAIN call.ret = {"name", "description", "parameters"}
                                       \cup ({"returns"} \cap DOMAIN call.arg)
                /\ DOMAIN call.ret.parameters = {"type", "properties", "required"}
                /\ call.ret.parameters.type = "object"
                /\ DOMAIN call.ret.parameters.properties =
                     (IF "parameters" \in DOMAIN call.arg THEN DOMAIN call.arg.parameters
                      ELSE {})
                /\ IF "requiredParameters" \in DOMAIN call.arg
                     THEN call.ret.parameters.required = call.arg.requiredParameters
                     ELSE call.ret.parameters.required = <<>>
        /\ (/\ call.op = "toolToJsonSchema"
            /\ call.from = "ToolList"
            /\ call.arg.name = "httpRequest")
             => /\ call.threw = "none"
                /\ call.ret.parameters.properties.url.type = "string"
                /\ call.ret.parameters.properties.method.enum = <<"GET", "POST">>
                /\ call.ret.parameters.required = <<"url", "method">>)
  /\ [][ (/\ call'.op = "registerTool"
          /\ call'.arg.name = "probe"
          /\ "requiredParameters" \in DOMAIN call'.arg
          /\ ~hasTool(tools, "probe"))
         => /\ "ghost" \notin DOMAIN call'.arg.parameters
            /\ call'.threw = "none"
            /\ toolToJsonSchema(getTool(tools', "probe")).parameters.required
                 = <<"ghost", "q">> ]_vars

\* the tool that requires the undeclared parameter ghost is registered, and
\* its schema, with returns, has been returned with ghost required
C15_Witness ==
  /\ call.op = "toolToJsonSchema"
  /\ call.arg.name = "probe"
  /\ "requiredParameters" \in DOMAIN call.arg
  /\ call.threw = "none"
  /\ "returns" \in DOMAIN call.ret
  /\ call.ret.parameters.required = <<"ghost", "q">>
  /\ hasTool(tools, "probe")
  /\ "requiredParameters" \in DOMAIN getTool(tools, "probe")

BuiltInNames == {"httpRequest", "databaseQuery", "fileOperation", "weatherInfo"}

\* C16: registerBuiltInTools on the empty registry throws nothing and leaves
\* the four built-in tools registered, size 4; validateTool accepts each
\* built-in tool, and registerTool of httpRequestTool succeeds.
C16_BuiltInsRegistered ==
  /\ []((call.op = "validateTool" /\ call.from = "builtInTools") => call.ok)
  /\ [][ /\ (call'.op = "registerBuiltInTools" /\ size(tools) = 0)
           => /\ call'.threw = "none"
              /\ size(tools') = 4
              /\ \A n \in BuiltInNames : hasTool(tools', n)
         /\ (/\ call'.op = "registerTool"
             /\ call'.from = "builtInTools"
             /\ ~hasTool(tools, call'.arg.name))
           => /\ call'.threw = "none"
              /\ hasTool(tools', "httpRequest") ]_vars

\* C17: toolToJsonSchema of a built-in tool returns a schema with the name of
\* the tool, its requiredParameters as parameters.required, and returns of
\* type object with one property for each property of the returns of the tool.
C17_BuiltInsConvert ==
  (call.op = "toolToJsonSchema" /\ call.from = "builtInTools")
    => /\ call.threw = "none"
       /\ call.ret.name = call.arg.name
       /\ call.ret.parameters.required = call.arg.requiredParameters
       /\ call.ret.returns.type = "object"
       /\ DOMAIN call.ret.returns.properties = DOMAIN call.arg.returns.properties

\* every array of the parameter, at every depth, has items
RECURSIVE HasItems(_)
HasItems(param) ==
  /\ param.type = "array" => "items" \in DOMAIN param /\ HasItems(param.items)
  /\ (param.type = "object" /\ "properties" \in DOMAIN param)
       => \A j \in DOMAIN param.properties : HasItems(param.properties[j])

ToolHasItems(tool) ==
  /\ "parameters" \in DOMAIN tool => \A j \in DOMAIN tool.parameters : HasItems(tool.parameters[j])
  /\ "returns" \in DOMAIN tool => HasItems(tool.returns)

\* C18: the tool that validateTool returns has items on every array at every
\* depth, and toolToJsonSchema of it does not throw.
C18_ValidatedHasItems ==
  /\ (call.op = "validateTool" /\ call.ok) => ToolHasItems(call.value)
  /\ (call.op = "toolToJsonSchema" /\ call.from = "validateTool") => call.threw = "none"

\* the violations of a value given as a parameter: the issues of the option
\* of parameterSchema for its type, each with the path of the field
ParameterViolations(p) == parameterIssues(p)

\* the violations of a value given as a tool: those of its own fields and
\* those of each parameter and of returns
ToolViolations(t) ==
  NonEmptyStringIssues(t, "name")
  \cup NonEmptyStringIssues(t, "description")
  \cup {Issue(<<k>>, "invalid_type") :
          k \in {j \in {"requiredParameters", "tags"} \cap DOMAIN t : ~IsList(t[j])}}
  \cup (IF "parameters" \notin DOMAIN t THEN {}
        ELSE UNION {Prefix(<<"parameters", j>>, ParameterViolations(t.parameters[j])) :
                      j \in DOMAIN t.parameters})
  \cup (IF "returns" \notin DOMAIN t THEN {}
        ELSE Prefix(<<"returns">>, ParameterViolations(t.returns)))

Lists(issues, violations) == \A v \in violations : \E i \in issues : i.path = v.path

\* C19: validateTool and validateParameter of a value with two violations or
\* more throw an error whose issues list every violation with its path, and
\* leave the registry as it was.
C19_ListsEveryViolation ==
  /\ [](/\ (call.op = "validateTool" /\ Cardinality(ToolViolations(call.arg)) >= 2)
             => ~call.ok /\ Lists(call.issues, ToolViolations(call.arg))
        /\ (call.op = "validateParameter" /\ Cardinality(ParameterViolations(call.arg)) >= 2)
             => ~call.ok /\ Lists(call.issues, ParameterViolations(call.arg)))
  /\ [][ call'.op \in {"validateTool", "validateParameter"}
         => tools' = tools /\ tags' = tags ]_vars

\* the parameter has a negative minLength, maxLength, minItems or maxItems
NegativeLength(p) ==
  \E k \in {"minLength", "maxLength", "minItems", "maxItems"} \cap DOMAIN p : p[k] < 0

\* C20: validateParameter rejects a string parameter with a negative
\* minLength or maxLength and an array parameter with a negative minItems or
\* maxItems; validateTool and registerTool reject a tool with such a parameter.
C20_NegativeRejected ==
  /\ (call.op = "validateParameter" /\ NegativeLength(call.arg)) => ~call.ok
  /\ (/\ call.op = "validateTool"
      /\ "parameters" \in DOMAIN call.arg
      /\ \E j \in DOMAIN call.arg.parameters : NegativeLength(call.arg.parameters[j]))
       => ~call.ok
  /\ (/\ call.op = "registerTool"
      /\ "parameters" \in DOMAIN call.arg
      /\ \E j \in DOMAIN call.arg.parameters : NegativeLength(call.arg.parameters[j]))
       => call.threw = "validation"

(***************************************************************************)
(* The registries of one process: globalToolRegistry, the free functions    *)
(* that delegate to it, and the registries built with "new ToolRegistry()" *)
(***************************************************************************)
\* the number of registries a caller builds
MaxRegistries == 2

\* the tools a caller registers: two valid ones and one with an empty name
InstanceTools ==
  << [name |-> "a", description |-> "d", tags |-> <<"x">>],
     [name |-> "b", description |-> "d", tags |-> <<"x", "y">>],
     [name |-> "", description |-> "d", tags |-> <<"x">>] >>

InstanceBatches ==
  << <<InstanceTools[1], InstanceTools[2]>>, <<InstanceTools[2], InstanceTools[3]>> >>

\* the registries by number: 0 is globalToolRegistry, i >= 1 is the i-th
\* registry built with new
Registries == 0..Len(instances)

RegistryOf(id) == IF id = 0 THEN [tools |-> tools, tags |-> tags] ELSE instances[id]

\* the maps as static members of the class: a write through one registry is
\* a write to all of them
WriteStatic(id, r) ==
  [tools |-> r.tools, tags |-> r.tags,
   instances |-> [i \in 1..Len(instances) |-> [tools |-> r.tools, tags |-> r.tags]]]

\* the maps as fields of the instance, "private tools = new Map()" and
\* "private tags = new Map()": a method of registry id writes the maps of id
Write(id, r) ==
  IF id = 0
    THEN [tools |-> r.tools, tags |-> r.tags, instances |-> instances]
    ELSE [tools |-> tools, tags |-> tags,
          instances |-> [instances EXCEPT ![id] = [tools |-> r.tools, tags |-> r.tags]]]

\* the record of a call: the registry it ran on, and whether it came through
\* a free function of the module
CallOn(id, free, rest) == [on |-> id, free |-> free] @@ rest

newToolRegistry ==
  /\ Len(instances) < MaxRegistries
  /\ instances' = Append(instances, [tools |-> <<>>, tags |-> <<>>])
  /\ UNCHANGED <<tools, tags, validator>>
  /\ call' = CallOn(Len(instances) + 1, FALSE, [op |-> "new ToolRegistry"])

\* registerTool as a method of a registry (free = FALSE) and as the free
\* function, which runs on globalToolRegistry
RegisterToolOn(id, free) ==
  \E i \in 1..Len(InstanceTools) :
    \E r \in {RegisterTool(RegistryOf(id).tools, RegistryOf(id).tags, InstanceTools[i])} :
    \E w \in {Write(id, r)} :
    /\ tools' = w.tools
    /\ tags' = w.tags
    /\ instances' = w.instances
    /\ UNCHANGED validator
    /\ call' = CallOn(id, free,
                 IF r.threw = "none"
                   THEN [op |-> "registerTool", arg |-> InstanceTools[i],
                         threw |-> r.threw, ret |-> r.ret]
                   ELSE [op |-> "registerTool", arg |-> InstanceTools[i],
                         threw |-> r.threw])

registerToolMethod == \E id \in Registries : RegisterToolOn(id, FALSE)

registerToolFree == RegisterToolOn(0, TRUE)

registerToolsMethod ==
  \E id \in Registries, b \in 1..Len(InstanceBatches) :
    \E r \in {RegisterTools(RegistryOf(id).tools, RegistryOf(id).tags,
                            InstanceBatches[b], <<>>)} :
    \E w \in {Write(id, r)} :
    /\ tools' = w.tools
    /\ tags' = w.tags
    /\ instances' = w.instances
    /\ UNCHANGED validator
    /\ call' = CallOn(id, FALSE, [op |-> "registerTools", arg |-> InstanceBatches[b],
                                  threw |-> r.threw])

unregisterToolMethod ==
  \E id \in Registries, name \in {"a", "b", "zz"} :
    \E r \in {UnregisterTool(RegistryOf(id).tools, RegistryOf(id).tags, name)} :
    \E w \in {Write(id, r)} :
    /\ tools' = w.tools
    /\ tags' = w.tags
    /\ instances' = w.instances
    /\ UNCHANGED validator
    /\ call' = CallOn(id, FALSE, [op |-> "unregisterTool", arg |-> name, ret |-> r.ret])

clearMethod ==
  \E id \in Registries :
    \E r \in {Clear(RegistryOf(id).tools, RegistryOf(id).tags)} :
    \E w \in {Write(id, r)} :
    /\ tools' = w.tools
    /\ tags' = w.tags
    /\ instances' = w.instances
    /\ UNCHANGED validator
    /\ call' = CallOn(id, FALSE, [op |-> "clear"])

\* getTool as a method and as the free function
GetToolOn(id, free) ==
  \E name \in {"a", "b", "zz"} :
    /\ UNCHANGED <<tools, tags, instances, validator>>
    /\ call' = CallOn(id, free, [op |-> "getTool", arg |-> name,
                                 ret |-> getTool(RegistryOf(id).tools, name)])

getToolMethod == \E id \in Registries : GetToolOn(id, FALSE)

getToolFree == GetToolOn(0, TRUE)

getAllToolsFree ==
  /\ UNCHANGED <<tools, tags, instances, validator>>
  /\ call' = CallOn(0, TRUE, [op |-> "getAllTools", ret |-> getAllTools(RegistryOf(0).tools)])

getToolsByTagFree ==
  \E tag \in TagInputs :
    \E r \in {getToolsByTag(RegistryOf(0).tools, RegistryOf(0).tags, tag)} :
    /\ UNCHANGED <<tools, tags, instances, validator>>
    /\ call' = CallOn(0, TRUE,
                 IF r.threw THEN [op |-> "getToolsByTag", arg |-> tag, threw |-> TRUE]
                 ELSE [op |-> "getToolsByTag", arg |-> tag, threw |-> FALSE, ret |-> r.ret])

NextInstances ==
  \/ newToolRegistry
  \/ registerToolMethod
  \/ registerToolFree
  \/ registerToolsMethod
  \/ unregisterToolMethod
  \/ clearMethod
  \/ getToolMethod
  \/ getToolFree
  \/ getAllToolsFree
  \/ getToolsByTagFree

SpecInstances == Init /\ [][NextInstances]_vars

\* C21: a call on one registry leaves the tools map and the tag index of
\* every other registry as they were, and a new registry starts empty; the
\* free functions run on globalToolRegistry: a tool registered through the
\* free registerTool is what globalToolRegistry.getTool returns for its name
\* and enters no registry built with new, and the free getTool, getAllTools
\* and getToolsByTag return what globalToolRegistry holds.
C21_InstancesIsolated ==
  [][ /\ call'.on # 0 => tools' = tools /\ tags' = tags
      /\ \A id \in 1..Len(instances) : id # call'.on => instances'[id] = instances[id]
      /\ IF call'.op = "new ToolRegistry"
           THEN /\ Len(instances') = Len(instances) + 1
                /\ instances'[call'.on] = [tools |-> <<>>, tags |-> <<>>]
           ELSE Len(instances') = Len(instances)
      /\ call'.free =>
           /\ call'.on = 0
           /\ instances' = instances
           /\ (call'.op = "registerTool" /\ call'.threw = "none") =>
                /\ getTool(tools', call'.ret.name) = call'.ret
                /\ \A id \in 1..Len(instances) :
                     ~hasTool(instances[id].tools, call'.ret.name)
                       => ~hasTool(instances'[id].tools, call'.ret.name)
           /\ call'.op = "getTool" => call'.ret = getTool(tools, call'.arg)
           /\ call'.op = "getAllTools" => call'.ret = MapValues(tools)
           /\ (call'.op = "getToolsByTag" /\ ~call'.threw) =>
                call'.ret = getToolsByTag(tools, tags, call'.arg).ret ]_vars

\* the free registerTool has registered tool a in globalToolRegistry while
\* one registry built with new holds tool b only and another one is empty
C21_Witness ==
  /\ call.op = "registerTool"
  /\ call.free
  /\ call.threw = "none"
  /\ call.ret.name = "a"
  /\ getTool(tools, "a") = call.ret
  /\ Len(instances) = 2
  /\ MapKeys(instances[1].tools) = <<"b">>
  /\ MapKeys(instances[1].tags) = <<"x", "y">>
  /\ instances[2] = [tools |-> <<>>, tags |-> <<>>]

(***************************************************************************)
(* Properties of the converter after the validation                        *)
(***************************************************************************)
\* C22: for every tool that validateTool accepts, toolToJsonSchema of the
\* tool that validateTool returns equals toolToJsonSchema of the tool itself:
\* both throw, or both return the same schema, with every constraint field of
\* every parameter at every depth.
C22_ValidationKeepsSchema ==
  [][ (call'.op = "toolToJsonSchema" /\ call'.from = "validateTool")
      => \A raw \in {toolToJsonSchema(call.arg)} :
           IF Threw(raw) THEN call'.threw = raw.threw
           ELSE call'.threw = "none" /\ call'.ret = raw ]_vars

\* C23: registerBuiltInTools raises no duplicate-name error and leaves every
\* tool that the registry holds in place, a user tool with the name of a
\* built-in tool included; a second call right after a first one leaves the
\* tools map and the tag index as the first call left them.
C23_BuiltInsSkipExisting ==
  [][ call'.op = "registerBuiltInTools"
      => /\ call'.threw # "duplicate"
         /\ \A i \in 1..Len(tools) : getTool(tools', tools[i].key) = tools[i].value
         /\ call.op = "registerBuiltInTools" => tools' = tools /\ tags' = tags ]_vars

\* registerBuiltInTools has run on a registry that holds the user tool
\* httpRequest of the usage example, and the registry still holds that tool
C23_Witness ==
  /\ call.op = "registerBuiltInTools"
  /\ call.before.size >= 1
  /\ hasTool(tools, "httpRequest")
  /\ getTool(tools, "httpRequest").description = exampleTool.description
  /\ getTool(tools, "httpRequest").description # httpRequestTool.description

\* the parameter without its name and without its boolean required flag, at
\* every depth
RECURSIVE WithoutFlags(_)
WithoutFlags(param) ==
  [k \in DOMAIN param \ ({"name"} \cup {j \in {"required"} \cap DOMAIN param :
                                          IsBoolean(param[j])}) |->
     IF k = "items" THEN WithoutFlags(param.items)
     ELSE IF k = "properties"
       THEN [j \in DOMAIN param.properties |-> WithoutFlags(param.properties[j])]
     ELSE param[k]]

ToolWithoutFlags(tool) ==
  [k \in DOMAIN tool |->
     IF k = "parameters"
       THEN [j \in DOMAIN tool.parameters |-> WithoutFlags(tool.parameters[j])]
     ELSE IF k = "returns" THEN WithoutFlags(tool.returns)
     ELSE tool[k]]

\* C24: toolToJsonSchema of a tool is what it is of the same tool whose
\* parameters have no name field and no boolean required flag: each property
\* of the schema is keyed by the key of the mapping, and parameters.required
\* is the requiredParameters of the tool, or the empty list without them.
C24_IgnoresRequiredAndName ==
  call.op = "toolToJsonSchema"
    => \A plain \in {toolToJsonSchema(ToolWithoutFlags(call.arg))} :
         /\ IF Threw(plain) THEN call.threw = plain.threw
            ELSE call.threw = "none" /\ call.ret = plain
         /\ call.threw = "none"
              => /\ DOMAIN call.ret.parameters.properties =
                      (IF "parameters" \in DOMAIN call.arg THEN DOMAIN call.arg.parameters
                       ELSE {})
                 /\ call.ret.parameters.required =
                      (IF "requiredParameters" \in DOMAIN call.arg
                         THEN call.arg.requiredParameters ELSE <<>>)

\* the schema of a parameter has, for every object of the parameter at every
\* depth, a mapping properties with the keys of the properties of that object,
\* the empty mapping for an object without properties
RECURSIVE ObjectsHaveProperties(_, _)
ObjectsHaveProperties(param, schema) ==
  /\ param.type = "object"
       => /\ "properties" \in DOMAIN schema
          /\ IF "properties" \in DOMAIN param
               THEN /\ DOMAIN schema.properties = DOMAIN param.properties
                    /\ \A j \in DOMAIN param.properties :
                         ObjectsHaveProperties(param.properties[j], schema.properties[j])
               ELSE schema.properties = <<>>
  /\ param.type = "array" => ObjectsHaveProperties(param.items, schema.items)

\* C25: in a schema that toolToJsonSchema returns, the schema of every object
\* parameter, at every depth and in returns, has a mapping properties, which
\* is empty when the parameter has no properties; for a tool without
\* parameters, parameters.properties is the empty mapping.
C25_ObjectsHaveProperties ==
  (call.op = "toolToJsonSchema" /\ call.threw = "none")
    => /\ IF "parameters" \in DOMAIN call.arg
            THEN \A j \in DOMAIN call.arg.parameters :
                   ObjectsHaveProperties(call.arg.parameters[j],
                                         call.ret.parameters.properties[j])
            ELSE call.ret.parameters.properties = <<>>
       /\ "returns" \in DOMAIN call.arg
            => ObjectsHaveProperties(call.arg.returns, call.ret.returns)

\* toolToJsonSchema has returned the schema of the tool whose objects have no
\* properties, as a parameter, below an object, below an array and in returns
C25_Witness ==
  /\ call.op = "toolToJsonSchema"
  /\ call.threw = "none"
  /\ call.arg.name = "nest"
  /\ "properties" \notin DOMAIN call.arg.parameters.cfg
  /\ call.ret.parameters.properties.cfg.properties = <<>>
  /\ call.ret.parameters.properties.outer.properties.inner.properties = <<>>
  /\ call.ret.parameters.properties.outer.properties.list.items.properties = <<>>
  /\ call.ret.returns.properties = <<>>

\* toolToJsonSchema has returned the schema of a tool without parameters
C25_WitnessPlain ==
  /\ call.op = "toolToJsonSchema"
  /\ call.threw = "none"
  /\ "parameters" \notin DOMAIN call.arg
  /\ call.ret.parameters.properties = <<>>

(***************************************************************************)
(* The order of the queries                                                *)
(***************************************************************************)
\* what getToolsByTag returns for a tag
ByTag(tl, tg, tag) == getToolsByTag(tl, tg, tag).ret

\* s without the tools of a name
Without(s, name) == SelectSeq(s, LAMBDA t : t.name # name)

\* s is the start of t
IsPrefix(s, t) == Len(s) <= Len(t) /\ \A i \in 1..Len(s) : s[i] = t[i]

\* C26: getAllTools returns the tools in the order of their registration and
\* getToolsByTag the holders of a tag in the order they were added to it: a
\* registration puts the tool at the end of getAllTools and at the end of
\* getToolsByTag of each of its tags, unregisterTool takes the tool out and
\* keeps the order of the others, so that a tool registered again stands last;
\* registerTools adds the tools it returns, in their order, at the end.
C26_RegistrationOrder ==
  [][ /\ (call'.op = "registerTool" /\ call'.threw = "none")
        => /\ getAllTools(tools') = Append(getAllTools(tools), call'.ret)
           /\ \A tag \in AllTags \cup Range(TagList(call'.ret)) :
                ByTag(tools', tags', tag) =
                  IF tag \in Range(TagList(call'.ret))
                    THEN Append(ByTag(tools, tags, tag), call'.ret)
                    ELSE ByTag(tools, tags, tag)
      /\ (call'.op = "registerTool" /\ call'.threw # "none")
        => getAllTools(tools') = getAllTools(tools)
      /\ call'.op = "registerTools"
        => /\ IsPrefix(getAllTools(tools), getAllTools(tools'))
           /\ call'.threw = "none"
                => getAllTools(tools') = getAllTools(tools) \o call'.ret
           /\ \A tag \in AllTags :
                IsPrefix(ByTag(tools, tags, tag), ByTag(tools', tags', tag))
      /\ call'.op = "unregisterTool"
        => /\ getAllTools(tools') = Without(getAllTools(tools), call'.arg)
           /\ \A tag \in AllTags :
                ByTag(tools', tags', tag) = Without(ByTag(tools, tags, tag), call'.arg) ]_vars

\* tool a has been registered into a registry that held b and A: it is the
\* last of getAllTools and the last of the three holders of tag x
C26_Witness ==
  /\ call.op = "registerTool"
  /\ call.threw = "none"
  /\ call.ret.name = "a"
  /\ MapKeys(tools) = <<"b", "A", "a">>
  /\ getAllTools(tools)[3] = call.ret
  /\ Len(ByTag(tools, tags, "x")) = 3
  /\ ByTag(tools, tags, "x")[3] = call.ret

(***************************************************************************)
(* Validator (src/unnamed/part_002)                                        *)
(*                                                                         *)
(* A JavaScript value is a record of its kind and, for a string, of its    *)
(* characters; a string is the sequence of its characters. An optional     *)
(* argument is the empty sequence when absent and <<v>> when given.        *)
(***************************************************************************)
Value(kind, chars) == [kind |-> kind, chars |-> chars]

ValueList ==
  << Value("undefined", <<>>), Value("null", <<>>), Value("string", <<>>),
     Value("string", <<"a", "b">>), Value("string", <<"b", "a", "b", "a">>),
     Value("number", <<>>), Value("NaN", <<>>), Value("boolean", <<>>),
     Value("array", <<>>), Value("object", <<>>) >>

\* typeof value
TypeOf(value) ==
  CASE value.kind \in {"null", "array", "object"} -> "object"
    [] value.kind = "NaN" -> "number"
    [] OTHER -> value.kind

\* the patterns: /^a/ and /b$/
PatternList == << [anchor |-> "^", char |-> "a"], [anchor |-> "$", char |-> "b"] >>

\* pattern.test(chars)
Test(pattern, chars) ==
  /\ chars # <<>>
  /\ IF pattern.anchor = "^" THEN chars[1] = pattern.char
     ELSE chars[Len(chars)] = pattern.char

LengthList == <<1, 3>>

MessageList == << <<>>, <<"">>, <<"custom">> >>

\* the checks of a chain, each with its arguments
CheckNames ==
  {"notEmpty", "isString", "isNumber", "isBoolean", "isArray", "isObject",
   "matches", "minLength", "maxLength"}

\* the condition under which a check records an error
Fails(c, value) ==
  CASE c.op = "notEmpty" ->
         value.kind \in {"null", "undefined"} \/ (value.kind = "string" /\ value.chars = <<>>)
    [] c.op = "isString" -> TypeOf(value) # "string"
    [] c.op = "isNumber" -> TypeOf(value) # "number" \/ value.kind = "NaN"
    [] c.op = "isBoolean" -> TypeOf(value) # "boolean"
    [] c.op = "isArray" -> value.kind # "array"
    [] c.op = "isObject" ->
         TypeOf(value) # "object" \/ value.kind = "null" \/ value.kind = "array"
    [] c.op = "matches" ->
         TypeOf(value) # "string" \/ ~Test(PatternList[c.pattern], value.chars)
    [] c.op = "minLength" ->
         TypeOf(value) # "string" \/ Len(value.chars) < LengthList[c.length]
    [] c.op = "maxLength" ->
         TypeOf(value) # "string" \/ Len(value.chars) > LengthList[c.length]

\* the default message of a check
DefaultMessage(c) ==
  CASE c.op = "notEmpty" -> "Value cannot be empty"
    [] c.op = "isString" -> "Value must be a string"
    [] c.op = "isNumber" -> "Value must be a number"
    [] c.op = "isBoolean" -> "Value must be a boolean"
    [] c.op = "isArray" -> "Value must be an array"
    [] c.op = "isObject" -> "Value must be an object"
    [] c.op = "matches" -> "Value does not match the required pattern"
    [] c.op = "minLength" ->
         "Value must be at least " \o ToString(LengthList[c.length]) \o " characters"
    [] c.op = "maxLength" ->
         "Value must be at most " \o ToString(LengthList[c.length]) \o " characters"

\* the message a check pushes: a default parameter gives way to every message
\* given, "message || ..." of minLength and maxLength to a non-empty one
Message(c) ==
  LET given == MessageList[c.message] IN
  IF given = <<>> THEN DefaultMessage(c)
  ELSE IF c.op \in {"minLength", "maxLength"} /\ given[1] = "" THEN DefaultMessage(c)
  ELSE given[1]

\* a check without "if (this.isValid)"
CheckUnguarded(v, c) ==
  IF Fails(c, v.value)
    THEN [v EXCEPT !.isValid = FALSE, !.errors = Append(@, Message(c))]
    ELSE v

\* the body shared by the checks: "if (this.isValid) { if (<fails>) {
\* this.isValid = false; this.errors.push(message) } }"
Check(v, c) ==
  IF v.isValid /\ Fails(c, v.value)
    THEN [v EXCEPT !.isValid = FALSE, !.errors = Append(@, Message(c))]
    ELSE v

\* a Validator has been built
Built == DOMAIN validator # {}

validate ==
  \E i \in 1..Len(ValueList) :
    /\ validator' = [value |-> ValueList[i], errors |-> <<>>, isValid |-> TRUE]
    /\ UNCHANGED <<tools, tags, instances>>
    /\ call' = [op |-> "validate", arg |-> ValueList[i]]

\* a check with a message argument only
Plain(op) ==
  /\ Built
  /\ \E m \in 1..Len(MessageList) :
       \E c \in {[op |-> op, message |-> m]} :
       /\ validator' = Check(validator, c)
       /\ UNCHANGED <<tools, tags, instances>>
       /\ call' = c

notEmpty == Plain("notEmpty")

isString == Plain("isString")

isNumber == Plain("isNumber")

isBoolean == Plain("isBoolean")

isArray == Plain("isArray")

isObject == Plain("isObject")

matches ==
  /\ Built
  /\ \E p \in 1..Len(PatternList), m \in 1..Len(MessageList) :
       \E c \in {[op |-> "matches", pattern |-> p, message |-> m]} :
       /\ validator' = Check(validator, c)
       /\ UNCHANGED <<tools, tags, instances>>
       /\ call' = c

\* minLength and maxLength
Length(op) ==
  /\ Built
  /\ \E n \in 1..Len(LengthList), m \in 1..Len(MessageList) :
       \E c \in {[op |-> op, length |-> n, message |-> m]} :
       /\ validator' = Check(validator, c)
       /\ UNCHANGED <<tools, tags, instances>>
       /\ call' = c

minLength == Length("minLength")

maxLength == Length("maxLength")

\* the getter result
result ==
  /\ Built
  /\ UNCHANGED <<tools, tags, instances, validator>>
  /\ call' = [op |-> "result", valid |-> validator.isValid, errors |-> validator.errors]

NextValidator ==
  \/ validate
  \/ notEmpty
  \/ isString
  \/ isNumber
  \/ isBoolean
  \/ isArray
  \/ isObject
  \/ matches
  \/ minLength
  \/ maxLength
  \/ result

SpecValidator == Init /\ [][NextValidator]_vars

\* C27: at every point of a chain on a Validator, isValid is true exactly
\* when errors is empty and errors holds at most one message; a check on a
\* valid Validator whose condition fails makes it invalid with the message of
\* that check as the only error, every other check leaves the Validator as it
\* is, so that the checks after the first failed one are skipped; result
\* returns isValid and errors as they are.
C27_FirstFailureOnly ==
  /\ [](Built => /\ validator.isValid <=> validator.errors = <<>>
                 /\ Len(validator.errors) <= 1)
  /\ [][ /\ call'.op \in CheckNames
           => /\ validator'.value = validator.value
              /\ IF validator.isValid /\ Fails(call', validator.value)
                   THEN /\ ~validator'.isValid
                        /\ validator'.errors = <<Message(call')>>
                   ELSE validator' = validator
         /\ call'.op = "result"
           => /\ call'.valid = validator.isValid
              /\ call'.errors = validator.errors
              /\ call'.valid <=> call'.errors = <<>> ]_vars

\* the chain validate("ab").isString().minLength(3).isNumber() has run: the
\* only error is the message of minLength, and isNumber, which fails on a
\* string, has added nothing
C27_Witness ==
  /\ Built
  /\ validator.value = Value("string", <<"a", "b">>)
  /\ ~validator.isValid
  /\ validator.errors = <<"Value must be at least 3 characters">>
  /\ call.op = "isNumber"

(***************************************************************************)
(* formatTemplate and formatPromptTemplate                                 *)
(* (src/src/promptTemplates/formatters.ts)                                 *)
(*                                                                         *)
(* A value given for a variable is a Value whose chars are, for a number   *)
(* and a boolean too, the characters of String(value). The templates are   *)
(* written with letters, ":", " ", "{" and "}": they hold no "#", so that  *)
(* the replaces for {{#if}} and {{#each}} find no match in them, and the   *)
(* values hold no "$", which a replacement string would expand.            *)
(***************************************************************************)
\* the tokens a template is written with: a text, or a placeholder for a key
\* with pad spaces on each side of the key
MaxTokens == 2

Text(chars) == [kind |-> "text", chars |-> chars, pad |-> 0]

Placeholder(key, pad) == [kind |-> "placeholder", chars |-> key, pad |-> pad]

TokenList ==
  << Text(<<"a", ":">>), Text(<<" ">>),
     Placeholder(<<"n">>, 0), Placeholder(<<"n">>, 1), Placeholder(<<"b">>, 0),
     Placeholder(<<"x">>, 0), Placeholder(<<"i", "d">>, 1) >>

Spaces(n) == [i \in 1..n |-> " "]

\* the characters of a token in a template
Render(token) ==
  IF token.kind = "text" THEN token.chars
  ELSE <<"{", "{">> \o Spaces(token.pad) \o token.chars \o Spaces(token.pad) \o <<"}", "}">>

RECURSIVE TemplateOf(_)
TemplateOf(tokens) ==
  IF tokens = <<>> THEN <<>> ELSE Render(Head(tokens)) \o TemplateOf(Tail(tokens))

\* the variables of a call, in the order of Object.entries
Entry(key, value) == [key |-> key, value |-> value]

VariablesList ==
  << <<>>,
     <<Entry(<<"n">>, Value("string", <<"v">>))>>,
     <<Entry(<<"n">>, Value("string", <<>>))>>,
     <<Entry(<<"n">>, Value("number", <<"0">>))>>,
     <<Entry(<<"n">>, Value("number", <<"7">>))>>,
     <<Entry(<<"n">>, Value("boolean", <<"f", "a", "l", "s", "e">>))>>,
     <<Entry(<<"n">>, Value("boolean", <<"t", "r", "u", "e">>))>>,
     <<Entry(<<"n">>, Value("number", <<"7">>)),
       Entry(<<"b">>, Value("boolean", <<"f", "a", "l", "s", "e">>))>>,
     <<Entry(<<"b">>, Value("boolean", <<"t", "r", "u", "e">>)),
       Entry(<<"n">>, Value("string", <<"v">>))>> >>

\* String(value)
StringOf(value) ==
  CASE value.kind = "undefined" -> <<"u", "n", "d", "e", "f", "i", "n", "e", "d">>
    [] value.kind = "null" -> <<"n", "u", "l", "l">>
    [] value.kind = "NaN" -> <<"N", "a", "N">>
    [] OTHER -> value.chars

\* the values that "value || ''" replaces by '': undefined, null, NaN, the
\* empty string, 0 and false
Falsy(value) ==
  \/ value.kind \in {"undefined", "null", "NaN"}
  \/ value.kind = "string" /\ value.chars = <<>>
  \/ value.kind = "number" /\ value.chars = <<"0">>
  \/ value.kind = "boolean" /\ value.chars = <<"f", "a", "l", "s", "e">>

\* the first index from i on that holds no space
RECURSIVE SkipSpaces(_, _)
SkipSpaces(s, i) == IF i <= Len(s) /\ s[i] = " " THEN SkipSpaces(s, i + 1) ELSE i

\* s holds the characters of t from index i on
HasAt(s, i, t) == i + Len(t) - 1 <= Len(s) /\ \A j \in 1..Len(t) : s[i + j - 1] = t[j]

\* the index after the match of /{{\s*key\s*}}/ that starts at i, 0 without one
MatchKey(s, i, key) ==
  IF ~HasAt(s, i, <<"{", "{">>) THEN 0
  ELSE LET k == SkipSpaces(s, i + 2) IN
       IF ~HasAt(s, k, key) THEN 0
       ELSE LET e == SkipSpaces(s, k + Len(key)) IN
            IF HasAt(s, e, <<"}", "}">>) THEN e + 2 ELSE 0

\* s.replace(new RegExp(`{{\\s*${key}\\s*}}`, 'g'), replacement) from index i on
RECURSIVE ReplaceKey(_, _, _, _)
ReplaceKey(s, i, key, replacement) ==
  IF i > Len(s) THEN <<>>
  ELSE LET e == MatchKey(s, i, key) IN
       IF e > 0 THEN replacement \o ReplaceKey(s, e, key, replacement)
       ELSE <<s[i]>> \o ReplaceKey(s, i + 1, key, replacement)

\* the first index from i on that holds "}"
RECURSIVE SkipToBrace(_, _)
SkipToBrace(s, i) == IF i <= Len(s) /\ s[i] # "}" THEN SkipToBrace(s, i + 1) ELSE i

\* the index after the match of /{{[^}]+}}/ that starts at i, 0 without one
MatchAny(s, i) ==
  IF ~HasAt(s, i, <<"{", "{">>) THEN 0
  ELSE LET e == SkipToBrace(s, i + 2) IN
       IF e > i + 2 /\ HasAt(s, e, <<"}", "}">>) THEN e + 2 ELSE 0

\* s.replace(/{{[^}]+}}/g, '') from index i on
RECURSIVE RemoveAny(_, _)
RemoveAny(s, i) ==
  IF i > Len(s) THEN <<>>
  ELSE LET e == MatchAny(s, i) IN
       IF e > 0 THEN RemoveAny(s, e) ELSE <<s[i]>> \o RemoveAny(s, i + 1)

\* the forEach over Object.entries(variables): each key replaced by
\* String(value || '')
RECURSIVE ReplaceEntries(_, _)
ReplaceEntries(s, entries) ==
  IF entries = <<>> THEN s
  ELSE ReplaceEntries(
         ReplaceKey(s, 1, Head(entries).key,
                    IF Falsy(Head(entries).value) THEN <<>>
                    ELSE StringOf(Head(entries).value)),
         Tail(entries))

\* formatTemplate(templateString, variables) for a template without "#"
formatTemplate(templateString, variables) ==
  RemoveAny(ReplaceEntries(templateString, variables), 1)

\* the objects and arrays of the JavaScript heap, each at its address: a
\* prompt template holds the address of its prompts array, the array the
\* addresses of its entries
PromptTemplate(templateType, tokens) ==
  [id |-> "t", name |-> "T", templateType |-> templateType, template |-> TemplateOf(tokens)]

Prompt(role, tokens) == [role |-> role, content |-> TemplateOf(tokens)]

PromptHeaps ==
  << << PromptTemplate("system", <<TokenList[1], TokenList[3]>>) >>,
     << PromptTemplate("user", <<TokenList[4], TokenList[6]>>) >>,
     << [prompts |-> 2] @@ PromptTemplate("complete", <<TokenList[1], TokenList[4]>>),
        <<3, 4>>,
        Prompt("system", <<TokenList[3], TokenList[2], TokenList[5]>>),
        Prompt("user", <<TokenList[1], TokenList[7]>>) >>,
     << [prompts |-> 2] @@ PromptTemplate("complete", <<TokenList[3]>>), <<>> >>,
     << [prompts |-> 2] @@ PromptTemplate("system", <<TokenList[3]>>),
        <<3>>,
        Prompt("user", <<TokenList[3]>>) >> >>

\* formatPromptTemplate that formats the template it was given in place
formatPromptTemplateInPlace(heap, template, variables) ==
  LET orig == heap[template]
      entries == IF orig.templateType = "complete" /\ "prompts" \in DOMAIN orig
                   THEN Range(heap[orig.prompts]) ELSE {}
  IN
  [heap |-> [a \in 1..Len(heap) |->
               IF a = template
                 THEN [orig EXCEPT !.template = formatTemplate(@, variables)]
               ELSE IF a \in entries
                 THEN [heap[a] EXCEPT !.content = formatTemplate(@, variables)]
               ELSE heap[a]],
   ret |-> template]

\* formatPromptTemplate(template, variables) on a heap: the heap afterwards,
\* with the new objects after the old ones, and the address returned.
\* "{ ...template }" is a new object with the fields of the template,
\* "template.prompts.map(prompt => ({ ...prompt, content: ... }))" a new array
\* of new objects.
formatPromptTemplate(heap, template, variables) ==
  LET orig == heap[template]
      copy == Len(heap) + 1
      formatted == [orig EXCEPT !.template = formatTemplate(@, variables)]
  IN
  IF orig.templateType = "complete" /\ "prompts" \in DOMAIN orig
    THEN LET prompts == heap[orig.prompts]
             n == Len(prompts)
         IN
         [heap |-> heap
                   \o << [formatted EXCEPT !.prompts = copy + n + 1] >>
                   \o [i \in 1..n |->
                         [heap[prompts[i]] EXCEPT !.content = formatTemplate(@, variables)]]
                   \o << [i \in 1..n |-> copy + i] >>,
          ret |-> copy]
    ELSE [heap |-> heap \o <<formatted>>, ret |-> copy]

\* the templates a caller writes: up to MaxTokens tokens
TokenSeqs == SeqsUpTo(1..Len(TokenList), MaxTokens)

Tokens(is) == [i \in 1..Len(is) |-> TokenList[is[i]]]

\* a caller holds the arguments of a call
InitFormat ==
  /\ tools = <<>>
  /\ tags = <<>>
  /\ instances = <<>>
  /\ validator = <<>>
  /\ \/ \E is \in TokenSeqs, v \in 1..Len(VariablesList) :
          call = [op |-> "arguments", of |-> "formatTemplate", tokens |-> Tokens(is),
                  templateString |-> TemplateOf(Tokens(is)),
                  variables |-> VariablesList[v]]
     \/ \E h \in 1..Len(PromptHeaps), v \in 1..Len(VariablesList) :
          call = [op |-> "arguments", of |-> "formatPromptTemplate",
                  heap |-> PromptHeaps[h], template |-> 1,
                  variables |-> VariablesList[v]]

formatTemplateCall ==
  /\ call.op = "arguments"
  /\ call.of = "formatTemplate"
  /\ UNCHANGED <<tools, tags, instances, validator>>
  /\ call' = [op |-> "formatTemplate", tokens |-> call.tokens,
              templateString |-> call.templateString, variables |-> call.variables,
              ret |-> formatTemplate(call.templateString, call.variables)]

formatPromptTemplateCall ==
  /\ call.op = "arguments"
  /\ call.of = "formatPromptTemplate"
  /\ UNCHANGED <<tools, tags, instances, validator>>
  /\ \E r \in {formatPromptTemplate(call.heap, call.template, call.variables)} :
       call' = [op |-> "formatPromptTemplate", heap |-> r.heap, template |-> call.template,
                variables |-> call.variables, ret |-> r.ret]

NextFormat == formatTemplateCall \/ formatPromptTemplateCall

SpecFormat == InitFormat /\ [][NextFormat]_vars

\* the value supplied for a key: the value of the last entry with the key
Supplied(variables, key) == {i \in 1..Len(variables) : variables[i].key = key}

\* what a template written with the tokens is to become: each text as it is,
\* each placeholder of a supplied key the string form of its value, each
\* other placeholder nothing
RECURSIVE Expected(_, _)
Expected(tokens, variables) ==
  IF tokens = <<>> THEN <<>>
  ELSE LET token == Head(tokens)
           is == Supplied(variables, token.chars)
       IN (IF token.kind = "text" THEN token.chars
           ELSE IF is = {} THEN <<>>
           ELSE StringOf(variables[CHOOSE i \in is : TRUE].value))
          \o Expected(Tail(tokens), variables)

\* C28: formatTemplate returns the template with every placeholder {{key}},
\* with or without spaces inside the braces, of a supplied variable replaced
\* by the string form of the value, whatever the value, 0 and false included,
\* and with every placeholder of a variable that was not supplied removed.
C28_ReplacesEveryValue ==
  call.op = "formatTemplate" => call.ret = Expected(call.tokens, call.variables)

\* the template object at an address and, for a complete template, its
\* prompts array and the entries of it, as a reader finds them on the heap
Reading(heap, template) ==
  LET object == heap[template] IN
  IF "prompts" \in DOMAIN object
    THEN [object |-> object, prompts |-> heap[object.prompts],
          entries |-> [i \in 1..Len(heap[object.prompts]) |-> heap[heap[object.prompts][i]]]]
    ELSE [object |-> object, prompts |-> <<>>, entries |-> <<>>]

\* C29: formatPromptTemplate leaves the template it was given as it was, its
\* template string, its prompts list and the content of every entry, and
\* returns another object whose template string is formatted and, for a
\* complete template, whose prompts are new entries with formatted content.
C29_InputNotMutated ==
  [][ call'.op = "formatPromptTemplate"
      => /\ Len(call'.heap) >= Len(call.heap)
         /\ SubSeq(call'.heap, 1, Len(call.heap)) = call.heap
         /\ Reading(call'.heap, call.template) = Reading(call.heap, call.template)
         /\ call'.ret # call.template
         /\ \A before \in {Reading(call.heap, call.template)},
               after \in {Reading(call'.heap, call'.ret)} :
              /\ after.object.template =
                   formatTemplate(before.object.template, call.variables)
              /\ after.object.templateType = before.object.templateType
              /\ before.object.templateType = "complete"
                   => /\ Len(after.entries) = Len(before.entries)
                      /\ after.object.prompts # before.object.prompts
                      /\ \A i \in 1..Len(before.entries) :
                           /\ after.prompts[i] # before.prompts[i]
                           /\ after.entries[i].role = before.entries[i].role
                           /\ after.entries[i].content =
                                formatTemplate(before.entries[i].content, call.variables) ]_vars

\* formatPromptTemplate has returned a complete template whose two prompts
\* are formatted, "7 " and "a:", while the template given still holds the
\* placeholders
C29_Witness ==
  /\ call.op = "formatPromptTemplate"
  /\ Reading(call.heap, call.template).object.templateType = "complete"
  /\ Len(Reading(call.heap, call.template).entries) = 2
  /\ Reading(call.heap, call.template).entries[1].content
       = <<"{", "{", "n", "}", "}", " ", "{", "{", "b", "}", "}">>
  /\ Reading(call.heap, call.ret).object.template = <<"a", ":", "7">>
  /\ Reading(call.heap, call.ret).entries[1].content = <<"7", " ">>
  /\ Reading(call.heap, call.ret).entries[2].content = <<"a", ":">>

(***************************************************************************)
(* jsonToFlatRecord and flatRecordToJson (src/unnamed/part_002)            *)
(*                                                                         *)
(* A plain object is a record of the kind "object" and of its entries      *)
(* [key, value] in insertion order, a key the sequence of its characters;  *)
(* the other values are Values.                                            *)
(***************************************************************************)
Object(entries) == [kind |-> "object", entries |-> entries]

IsObject(value) == value.kind = "object"

\* the leaves and the keys of the objects given to the adapters; no key
\* holds a "."
LeafList ==
  << Value("string", <<"v">>), Value("number", <<"0">>),
     Value("boolean", <<"t", "r", "u", "e">>) >>

KeyList == << <<"a">>, <<"b">>, <<>> >>

\* the objects with one entry whose value is taken from values
Single(values) ==
  {Object(<<Entry(KeyList[k], v)>>) : k \in 1..Len(KeyList), v \in values}

\* the values of an entry: a leaf, the empty object, an object with one leaf
\* and an object with one object with one leaf or none
Nested1 == {Object(<<>>)} \cup Single(Range(LeafList))

Nested ==
  Range(LeafList) \cup Nested1 \cup Single({Object(<<>>), LeafList[1]} \cup Single({LeafList[2]}))

\* the objects given: up to two entries with different keys
JsonInputs ==
  {Object(<<>>)}
  \cup Single(Nested)
  \cup UNION {{Object(<<Entry(KeyList[j], v), Entry(KeyList[k], w)>>) :
                  k \in 1..Len(KeyList) \ {j}, v \in Nested1, w \in Nested} :
                j \in 1..Len(KeyList)}

\* `${prefix}.${key}` when prefix is truthy, key otherwise
NewPrefix(prefix, key) == IF prefix # <<>> THEN prefix \o <<".">> \o key ELSE key

\* flatten(obj, prefix) of jsonToFlatRecord with the default options, on the
\* entries of an object: the record result after the forEach. A value that
\* is an object with keys is flattened under the new prefix, an array is
\* joined, null and undefined become the default value '', every other
\* value, the empty object too, is stored as it is.
RECURSIVE Flatten(_, _, _)
Flatten(record, entries, prefix) ==
  IF entries = <<>> THEN record
  ELSE LET key == Head(entries).key
           value == Head(entries).value
           newPrefix == NewPrefix(prefix, key)
           next ==
             IF value.kind \in {"null", "undefined"}
               THEN MapSet(record, newPrefix, Value("string", <<>>))
             ELSE IF IsObject(value) /\ value.entries # <<>>
               THEN Flatten(record, value.entries, newPrefix)
             ELSE IF value.kind = "array"
               THEN MapSet(record, newPrefix, Value("string", value.chars))
             ELSE MapSet(record, newPrefix, value)
       IN Flatten(next, Tail(entries), prefix)

jsonToFlatRecord(json) == Object(Flatten(<<>>, json.entries, <<>>))

\* key.split('.') from index i on, part being the characters read so far
RECURSIVE Split(_, _, _)
Split(key, i, part) ==
  IF i > Len(key) THEN <<part>>
  ELSE IF key[i] = "." THEN <<part>> \o Split(key, i + 1, <<>>)
  ELSE Split(key, i + 1, Append(part, key[i]))

\* the parts.forEach of flatRecordToJson on the object current: the last
\* part is set to the value, each part before it is replaced by an empty
\* object unless it holds an object
RECURSIVE SetPath(_, _, _)
SetPath(current, parts, value) ==
  IF Len(parts) = 1 THEN Object(MapSet(current.entries, parts[1], value))
  ELSE LET part == Head(parts)
           held == IF MapHas(current.entries, part) /\ IsObject(MapGet(current.entries, part))
                     THEN MapGet(current.entries, part)
                     ELSE Object(<<>>)
       IN Object(MapSet(current.entries, part, SetPath(held, Tail(parts), value)))

\* the forEach of flatRecordToJson over the entries of the record
RECURSIVE Unflatten(_, _)
Unflatten(json, entries) ==
  IF entries = <<>> THEN json
  ELSE LET key == Head(entries).key
           value == Head(entries).value
       IN Unflatten(IF "." \in Range(key) THEN SetPath(json, Split(key, 1, <<>>), value)
                    ELSE Object(MapSet(json.entries, key, value)),
                    Tail(entries))

flatRecordToJson(record) == Unflatten(Object(<<>>), record.entries)

InitAdapter ==
  /\ tools = <<>>
  /\ tags = <<>>
  /\ instances = <<>>
  /\ validator = <<>>
  /\ \E json \in JsonInputs : call = [op |-> "arguments", json |-> json]

jsonToFlatRecordCall ==
  /\ call.op = "arguments"
  /\ UNCHANGED <<tools, tags, instances, validator>>
  /\ call' = [op |-> "jsonToFlatRecord", json |-> call.json,
              ret |-> jsonToFlatRecord(call.json)]

\* flatRecordToJson of the record that jsonToFlatRecord has returned
flatRecordToJsonCall ==
  /\ call.op = "jsonToFlatRecord"
  /\ UNCHANGED <<tools, tags, instances, validator>>
  /\ call' = [op |-> "flatRecordToJson", json |-> call.json, record |-> call.ret,
              ret |-> flatRecordToJson(call.ret)]

NextAdapter == jsonToFlatRecordCall \/ flatRecordToJsonCall

SpecAdapter == InitAdapter /\ [][NextAdapter]_vars

\* structural equality: the same kind and, for objects, the same keys with
\* structurally equal values, in whatever order
RECURSIVE Same(_, _)
Same(x, y) ==
  /\ x.kind = y.kind
  /\ IF IsObject(x)
       THEN /\ Range(MapKeys(x.entries)) = Range(MapKeys(y.entries))
            /\ Len(x.entries) = Len(y.entries)
            /\ \A i \in 1..Len(x.entries) :
                 Same(x.entries[i].value, MapGet(y.entries, x.entries[i].key))
       ELSE x = y

\* the paths to the leaves of an object, each the sequence of its keys
RECURSIVE LeafPaths(_)
LeafPaths(x) ==
  UNION {IF IsObject(x.entries[i].value)
           THEN {<<x.entries[i].key>> \o path : path \in LeafPaths(x.entries[i].value)}
           ELSE {<<x.entries[i].key>>} : i \in 1..Len(x.entries)}

RECURSIVE LeafAt(_, _)
LeafAt(x, path) ==
  IF path = <<>> THEN x ELSE LeafAt(MapGet(x.entries, Head(path)), Tail(path))

\* the keys of a path joined with "."
RECURSIVE Join(_)
Join(path) ==
  IF Len(path) = 1 THEN path[1] ELSE path[1] \o <<".">> \o Join(Tail(path))

\* C30: for an object whose keys hold no "." and whose leaves are strings,
\* numbers and booleans, jsonToFlatRecord returns exactly one entry for each
\* leaf, with the keys of the path to the leaf joined by "." as its key and
\* the leaf as its value, and flatRecordToJson of that record is
\* structurally equal to the object.
C30_FlatRoundTrip ==
  /\ call.op = "jsonToFlatRecord"
       => /\ Len(call.ret.entries) = Cardinality(LeafPaths(call.json))
          /\ \A path \in LeafPaths(call.json) :
               /\ MapHas(call.ret.entries, Join(path))
               /\ MapGet(call.ret.entries, Join(path)) = LeafAt(call.json, path)
  /\ call.op = "flatRecordToJson" => Same(call.ret, call.json)

====
